---- MODULE Spec2Model ----
(***************************************************************************)
(* Model of the optimizer registry of the judge training ground backend:   *)
(* split_test_cases and OptimizerRegistry (validate_optimizer, optimize)   *)
(* of app/services/optimizer/registry.py, with the two factories it holds. *)
(*                                                                         *)
(* TestCase objects live on a heap (address -> fields) so that "copy" and  *)
(* "same object" are different things; lists are sequences of addresses.   *)
(* Strings the code builds with f-strings are sequences of their parts.    *)
(***************************************************************************)
EXTENDS Integers, Sequences, FiniteSets, TLC

VARIABLES
    pc,             \* position of the caller / of OptimizerRegistry.optimize
    op,             \* which entry point the current call uses
    heap,           \* address -> TestCase fields
    test_cases,     \* the caller's list, as passed (sequence of addresses)
    snapCases,      \* the caller's list as it was when the call started
    snapHeap,       \* the heap as it was when the call started
    framework,      \* argument of validate_optimizer / optimize
    optimizer_type, \* argument of validate_optimizer / optimize
    current_prompt, \* argument of optimize
    model,          \* argument of optimize
    train_ratio,    \* argument of split_test_cases
    train_cases,    \* local of optimize / first result of split_test_cases
    test_split,     \* local of optimize / second result of split_test_cases
    config,         \* the OptimizationConfig built by optimize, or None
    adapter,        \* the adapter created by the factory, or None
    outcome,        \* what adapter.optimize did: "none", "ok", "noop", or the
                    \* description of the exception it raised
    response,       \* the OptimizeResponse returned, or None
    raised,         \* the exception that left the call, or None
    shuffleCalls,   \* number of split_test_cases invocations in this call
    engineCalls,    \* number of adapter.optimize invocations in this call
    prev,           \* the partitions fed back into this call, if any
    \* LLMJudge.evaluate_batch
    jpc,            \* position of the caller of evaluate_batch
    jcases,         \* the test cases of the batch, in input order
    jtask,          \* per case: "created", "inflight" or "done"
    jreply,         \* per case: what the LLM request produced
    jresults,       \* per case: the slot asyncio.gather keeps for its result
    jinverted,      \* some request completed ahead of an earlier case's
    joutput,        \* the list evaluate_batch returned
    jraised,        \* the exception that left evaluate_batch, or NoError
    \* BaseDSPyAdapter._extract_optimized_prompt
    xpc,            \* position of the caller of the extraction
    xmodule,        \* the optimized module handed in
    xoriginal,      \* original_prompt
    xname,          \* the adapter's name
    xresult,        \* the (optimized_prompt, modification_notes) returned
    \* adapters' optimize calls running as tasks of one event loop
    cpc,            \* per task: "idle", "called", "engine", "resume", "done"
    cfw,            \* per task: the framework of its adapter
    cmodel,         \* per task: the model its caller asked for
    cengine,        \* per task: the model its Opik optimizer was built with
    cran,           \* per task: the model its engine ran with
    cout,           \* per task: "none", or how its engine call ended
    centered,       \* per task: number of times it entered dspy.context
    cexited,        \* per task: number of times it left dspy.context
    loop,           \* the task that holds the event loop's thread, 0 if none
    ctxStack,       \* the overrides dspy.context has stacked on that thread
    globalLM,       \* the lm dspy.configure has set for the process
    coverlap,       \* an engine started while another engine was running
    ticks,          \* steps other tasks of the loop have taken
    \* one call of a function of the optimizer package
    kpc,            \* position of the caller: "idle" or "done"
    kop,            \* the function called
    karg,           \* its arguments
    kres,           \* what it returned or raised
    \* generate_test_cases
    gpc,            \* position in generate_test_cases
    gmodel,         \* the model the caller asked for
    gcount,         \* the number of cases the caller asked for
    gcalls,         \* the call_llm calls made so far, in order
    greplies,       \* what those calls produced, in order
    gcases,         \* the local list test_cases
    gresult,        \* the tuple returned, or NoGenerated
    graised,        \* the exception that left the call, or NoError
    \* run_endpoint
    rstats,         \* the RunStats run_endpoint returned, or NoStats
    \* two optimize calls on the same arguments but for results
    ppc,            \* position of the caller of the two calls
    pcases,         \* the test_cases both calls are given
    pcombo,         \* the framework and optimizer_type both calls are given
    presults,       \* the results the first and the second call are given
    pout            \* how the first and the second call ended

registryVars == <<pc, op, heap, test_cases, snapCases, snapHeap, framework,
                  optimizer_type, current_prompt, model, train_ratio,
                  train_cases, test_split, config, adapter, outcome, response,
                  raised, shuffleCalls, engineCalls, prev>>

judgeVars == <<jpc, jcases, jtask, jreply, jresults, jinverted, joutput,
               jraised>>

extractVars == <<xpc, xmodule, xoriginal, xname, xresult>>

loopVars == <<cpc, cfw, cmodel, cengine, cran, cout, centered, cexited, loop,
              ctxStack, globalLM, coverlap, ticks>>

callVars == <<kpc, kop, karg, kres>>

genVars == <<gpc, gmodel, gcount, gcalls, greplies, gcases, gresult, graised>>

runVars == <<rstats>>

pairVars == <<ppc, pcases, pcombo, presults, pout>>

vars == <<registryVars, judgeVars, extractVars, loopVars, callVars, genVars,
          runVars, pairVars>>

\* what a step of the registry leaves alone
notRegistryVars == <<judgeVars, extractVars, loopVars, callVars, genVars,
                     runVars, pairVars>>
\* what a step of the judge leaves alone
notJudgeVars == <<registryVars, extractVars, loopVars, callVars, genVars,
                  runVars, pairVars>>
\* what a step of the prompt extraction leaves alone
notExtractVars == <<registryVars, judgeVars, loopVars, callVars, genVars,
                    runVars, pairVars>>
\* what a step of a task of the event loop leaves alone
notLoopVars == <<registryVars, judgeVars, extractVars, callVars, genVars,
                 runVars, pairVars>>
\* what a call of a function of the optimizer package leaves alone
notCallVars == <<registryVars, judgeVars, extractVars, loopVars, genVars,
                 runVars, pairVars>>
\* what a step of generate_test_cases leaves alone
notGenVars == <<registryVars, judgeVars, extractVars, loopVars, callVars,
                runVars, pairVars>>
\* what the building of the RunStats leaves alone
notRunVars == <<registryVars, judgeVars, extractVars, loopVars, callVars,
                genVars, pairVars>>
\* what the end of a run_endpoint request leaves alone
notJudgeRunVars == <<registryVars, extractVars, loopVars, callVars, genVars,
                     pairVars>>
\* what the caller of the two optimize calls leaves alone
notPairVars == <<registryVars, judgeVars, extractVars, loopVars, callVars,
                 genVars, runVars>>

None == "None"                  \* Python's None, for a TestCase's split

(***************************************************************************)
(* Bounds of the model.                                                    *)
(***************************************************************************)
MaxCases == 3       \* lists up to this length are shuffled in every order

\* Longer untagged lists, given to split_test_cases directly; their shuffle
\* is drawn from the rotations only (a subset of what random.shuffle does).
LongLens == {10, 90}

(***************************************************************************)
(* IEEE-754 binary64 arithmetic for  int(len(shuffled) * train_ratio).     *)
(* A double is mant * 2^exp, mant a sequence of 53 bits, lowest bit first. *)
(***************************************************************************)
MantBits == 53

RECURSIVE CarryBits(_)
CarryBits(c) == IF c = 0 THEN <<>> ELSE <<c % 2>> \o CarryBits(c \div 2)

\* exact product of a bit sequence and a small natural number
RECURSIVE MulBits(_, _, _, _)
MulBits(bits, n, i, carry) ==
    IF i > Len(bits) THEN CarryBits(carry)
    ELSE LET t == n * bits[i] + carry
         IN  <<t % 2>> \o MulBits(bits, n, i + 1, t \div 2)

\* index of the highest set bit, 0 for zero
RECURSIVE BitLen(_, _)
BitLen(bits, i) ==
    IF i = 0 THEN 0 ELSE IF bits[i] = 1 THEN i ELSE BitLen(bits, i - 1)

RECURSIVE IncBits(_, _)
IncBits(bits, i) ==
    IF i > Len(bits) THEN bits \o <<1>>
    ELSE IF bits[i] = 0 THEN [bits EXCEPT ![i] = 1]
    ELSE IncBits([bits EXCEPT ![i] = 0], i + 1)

RECURSIVE BitsToInt(_, _)
BitsToInt(bits, i) ==
    IF i > Len(bits) THEN 0 ELSE bits[i] + 2 * BitsToInt(bits, i + 1)

\* round-to-nearest, ties-to-even, of bits * 2^exp to a 53-bit mantissa
RoundDouble(bits, exp) ==
    LET L == BitLen(bits, Len(bits))
        d == L - MantBits
    IN  IF d <= 0 THEN [mant |-> SubSeq(bits, 1, L), exp |-> exp]
        ELSE LET q      == SubSeq(bits, d + 1, L)
                 half   == bits[d] = 1
                 sticky == \E i \in 1..(d - 1) : bits[i] = 1
                 up     == half /\ (sticky \/ q[1] = 1)
                 r      == IF up THEN IncBits(q, 1) ELSE q
             IN  IF Len(r) > MantBits
                 THEN [mant |-> SubSeq(r, 2, Len(r)), exp |-> exp + d + 1]
                 ELSE [mant |-> r, exp |-> exp + d]

\* n * x as Python computes it for an int n and a float x
FloatMul(n, x) == RoundDouble(MulBits(x.mant, n, 1, 0), x.exp)

\* int(x) for a non-negative double below 2^31: truncation
FloatToInt(x) ==
    IF x.exp >= 0 THEN BitsToInt(x.mant, 1) * (2 ^ x.exp)
    ELSE IF -x.exp >= Len(x.mant) THEN 0
    ELSE BitsToInt(SubSeq(x.mant, 1 - x.exp, Len(x.mant)), 1)

\* the doubles nearest to 0.5, 0.7 and 0.8, with the decimal they stand for
Ratio05 ==
    [num |-> 5, den |-> 10, exp |-> -53, mant |->
     <<0,0,0,0,0,0,0,0,0,0,0,0,0,0,0,0,0,0,0,0,0,0,0,0,0,0,0,0,0,0,0,0,0,0,0,0,
       0,0,0,0,0,0,0,0,0,0,0,0,0,0,0,0,1>>]
Ratio07 ==
    [num |-> 7, den |-> 10, exp |-> -53, mant |->
     <<0,1,1,0,0,1,1,0,0,1,1,0,0,1,1,0,0,1,1,0,0,1,1,0,0,1,1,0,0,1,1,0,0,1,1,0,
       0,1,1,0,0,1,1,0,0,1,1,0,0,1,1,0,1>>]
Ratio08 ==
    [num |-> 8, den |-> 10, exp |-> -53, mant |->
     <<0,1,0,1,1,0,0,1,1,0,0,1,1,0,0,1,1,0,0,1,1,0,0,1,1,0,0,1,1,0,0,1,1,0,0,1,
       1,0,0,1,1,0,0,1,1,0,0,1,1,0,0,1,1>>]

DefaultTrainRatio == Ratio07
Ratios == {Ratio05, Ratio07, Ratio08}

\* split_idx = int(len(shuffled) * train_ratio)
SplitIdx(n, ratio) == FloatToInt(FloatMul(n, ratio))

(***************************************************************************)
(* Data model (app/schemas.py).                                            *)
(***************************************************************************)
Splits == {None, "train", "test"}

Range(s) == {s[i] : i \in 1..Len(s)}

\* a TestCase; the id stands for the fields the splitter carries along
TestCase(i, s) ==
    [id |-> i,
     expected_verdict |-> IF i % 2 = 0 THEN "PASS" ELSE "FAIL",
     split |-> s]

\* every list of n cases with distinct ids and any tagging
CaseLists(n) ==
    {[i \in 1..n |-> TestCase(i, tags[i])] : tags \in [1..n -> Splits]}

\* the lists a caller passes: short ones with any tagging, long untagged
ShortInputs == UNION {CaseLists(n) : n \in 0..MaxCases}
LongInputs  == {[i \in 1..n |-> TestCase(i, None)] : n \in LongLens}

NoResponse == [kind |-> "none"]
NoConfig   == [kind |-> "none"]
NoAdapter  == [kind |-> "none"]
NoError    == <<>>
NoPrev     == [kind |-> "none"]

\* OptimizeResponse(optimized_prompt, modification_notes, train_cases, test_cases)
OptimizeResponse(p, notes, train, test) ==
    [kind |-> "response", optimized_prompt |-> p, modification_notes |-> notes,
     train_cases |-> train, test_cases |-> test]

\* the cases a list of addresses refers to
Deref(h, addrs) == [i \in 1..Len(addrs) |-> h[addrs[i]]]

(***************************************************************************)
(* split_test_cases                                                        *)
(***************************************************************************)
Perms(n) == {p \in [1..n -> 1..n] : \A i, j \in 1..n : p[i] = p[j] => i = j}
Rotations(n) == {[i \in 1..n |-> ((i + k - 1) % n) + 1] : k \in 0..(n - 1)}

\* the orders random.shuffle is let to produce for a list of n
ShufflePerms(n) == IF n <= MaxCases THEN Perms(n) ELSE Rotations(n)

\* variant: the test slice starts one position early (shuffled[split_idx-1:])
SplitTestCases_Overlap(h, cases, ratio, perm) ==
    LET n         == Len(cases)
        shuffled  == [i \in 1..n |-> cases[perm[i]]]
        split_idx == SplitIdx(n, ratio)
        from      == IF split_idx > 0 THEN split_idx - 1 ELSE 0
        trainC    == [i \in 1..split_idx |->
                        [h[shuffled[i]] EXCEPT !.split = "train"]]
        testC     == [i \in 1..(n - from) |->
                        [h[shuffled[from + i]] EXCEPT !.split = "test"]]
    IN  [heap  |-> h \o trainC \o testC,
         train |-> [i \in 1..split_idx |-> Len(h) + i],
         test  |-> [i \in 1..(n - from) |-> Len(h) + split_idx + i]]

\* variant: the split tag is written into the caller's objects (no model_copy)
SplitTestCases_InPlace(h, cases, ratio, perm) ==
    LET n         == Len(cases)
        shuffled  == [i \in 1..n |-> cases[perm[i]]]
        split_idx == SplitIdx(n, ratio)
        pos(a)    == CHOOSE i \in 1..n : shuffled[i] = a
    IN  [heap  |-> [a \in 1..Len(h) |->
                      IF a \in Range(cases)
                      THEN [h[a] EXCEPT !.split =
                              IF pos(a) <= split_idx THEN "train" ELSE "test"]
                      ELSE h[a]],
         train |-> SubSeq(shuffled, 1, split_idx),
         test  |-> SubSeq(shuffled, split_idx + 1, n)]

\* shuffled = test_cases.copy(); random.shuffle(shuffled); the slices
\* shuffled[:split_idx] and shuffled[split_idx:] are copied with
\* model_copy(update={"split": ...}) into fresh objects.
SplitTestCases(h, cases, ratio, perm) ==
    LET n         == Len(cases)
        shuffled  == [i \in 1..n |-> cases[perm[i]]]
        split_idx == SplitIdx(n, ratio)
        copies    == [i \in 1..n |->
                        [h[shuffled[i]] EXCEPT
                           !.split = IF i <= split_idx THEN "train" ELSE "test"]]
    IN  [heap  |-> h \o copies,
         train |-> [i \in 1..split_idx |-> Len(h) + i],
         test  |-> [i \in 1..(n - split_idx) |-> Len(h) + split_idx + i]]

(***************************************************************************)
(* Factories and registry                                                  *)
(***************************************************************************)
\* DSPyOptimizerFactory.OPTIMIZER_MAP keys, in order
DSPyTypes == <<"bootstrap_fewshot", "miprov2", "copro">>
\* OpikOptimizerFactory.OPTIMIZER_MAP keys, in order
OpikTypes == <<"evolutionary", "fewshot_bayesian", "metaprompt",
               "hierarchical_reflective", "gepa", "parameter">>

\* OptimizerRegistry._factories: framework -> get_optimizer_types()
Factories == [f \in {"dspy", "opik"} |->
                 IF f = "dspy" THEN DSPyTypes ELSE OpikTypes]

\* values a caller may pass
FrameworkInputs == DOMAIN Factories \cup {"langchain"}
TypeInputs      == Range(DSPyTypes) \cup Range(OpikTypes) \cup {"gradient"}
Models          == {"gpt-4o", "claude-3-5-sonnet-20241022"}
Prompts         == {"Original"}
EngineErrors    == {"DSPy error", "Opik optimization error"}

\* variant: validation is a no-op
ValidateOptimizer_Skipped(fw, ty) == NoError

\* variant: only the framework is validated
ValidateOptimizer_FrameworkOnly(fw, ty) ==
    IF fw \notin DOMAIN Factories
    THEN <<"Unknown framework: ", fw>>
    ELSE NoError

\* variant: the not-available message leaves out the available types
ValidateOptimizer_NoList(fw, ty) ==
    IF fw \notin DOMAIN Factories
    THEN <<"Unknown framework: ", fw>>
    ELSE IF ty \notin Range(Factories[fw])
         THEN <<"Optimizer '", ty, "' not available in ", fw>>
         ELSE NoError

\* validate_optimizer: NoError, or the ValueError's message
ValidateOptimizer(fw, ty) ==
    IF fw \notin DOMAIN Factories
    THEN <<"Unknown framework: ", fw>>
    ELSE LET available == Factories[fw]
         IN  IF ty \notin Range(available)
             THEN <<"Optimizer '", ty, "' not available in ", fw,
                    ". Available: ">> \o available
             ELSE NoError

\* variant: existing tags are ignored, the cases are always reshuffled
HasSplit_Never(h, cases) == FALSE

\* has_split = any(tc.split is not None for tc in test_cases)
HasSplit(h, cases) == \E i \in 1..Len(cases) : h[cases[i]].split # None

\* variant: matching cases are collected in reverse order
RECURSIVE FilterBySplit_Reversed(_, _, _)
FilterBySplit_Reversed(h, cases, tag) ==
    IF cases = <<>> THEN <<>>
    ELSE FilterBySplit_Reversed(h, Tail(cases), tag)
         \o (IF h[Head(cases)].split = tag THEN <<Head(cases)>> ELSE <<>>)

\* variant: a case without tag counts as a train case
RECURSIVE FilterBySplit_KeepUntagged(_, _, _)
FilterBySplit_KeepUntagged(h, cases, tag) ==
    IF cases = <<>> THEN <<>>
    ELSE (IF h[Head(cases)].split = tag
             \/ (tag = "train" /\ h[Head(cases)].split = None)
          THEN <<Head(cases)>> ELSE <<>>)
         \o FilterBySplit_KeepUntagged(h, Tail(cases), tag)

\* [tc for tc in test_cases if tc.split == tag]
RECURSIVE FilterBySplit(_, _, _)
FilterBySplit(h, cases, tag) ==
    IF cases = <<>> THEN <<>>
    ELSE (IF h[Head(cases)].split = tag THEN <<Head(cases)>> ELSE <<>>)
         \o FilterBySplit(h, Tail(cases), tag)

\* variant: the early return is never taken
NoTrainCases_Never(train) == FALSE

\* if not train_cases
NoTrainCases(train) == train = <<>>

\* OptimizationConfig(model=model, n_threads=8, seed=42, verbose=0)
OptimizationConfig(m) ==
    [kind |-> "config", model |-> m, n_threads |-> 8, seed |-> 42,
     verbose |-> 0]

\* the name a factory gives its framework in its error message
FactoryLabel(fw) == IF fw = "dspy" THEN "DSPy" ELSE "Opik"

\* variant: a type the factory does not know gets an adapter all the same
CreateAdapter_AnyType(fw, ty, cfg) ==
    IF fw \notin DOMAIN Factories
    THEN [kind |-> "error", message |-> <<"KeyError: ", fw>>]
    ELSE [kind |-> "adapter", name |-> ty, framework |-> fw, config |-> cfg]

\* self._factories[framework].create_adapter(optimizer_type, config)
CreateAdapter(fw, ty, cfg) ==
    IF fw \notin DOMAIN Factories
    THEN [kind |-> "error", message |-> <<"KeyError: ", fw>>]
    ELSE IF ty \notin Range(Factories[fw])
    THEN [kind |-> "error",
          message |-> <<"Unknown ", FactoryLabel(fw), " optimizer: ", ty,
                        ". Available: ">> \o Factories[fw]]
    ELSE [kind |-> "adapter", name |-> ty, framework |-> fw, config |-> cfg]

\* what adapter.optimize hands back when it does not raise
AdapterResult(a, prompt, o) ==
    IF o = "ok"
    THEN [optimized_prompt |-> "Optimized",
          modification_notes |-> <<"Updated instructions from optimizer">>]
    ELSE [optimized_prompt |-> prompt,
          modification_notes |->
              <<"Optimizer (", a.name, ") ran but made no changes">>]

\* variant: the handler keeps neither the prompt nor the error text
OnAdapterError_Lossy(prompt, e) ==
    [optimized_prompt |-> "",
     modification_notes |-> <<"Optimization failed">>]

\* except Exception as e: the degraded result
OnAdapterError(prompt, e) ==
    [optimized_prompt |-> prompt,
     modification_notes |-> <<"Optimization failed: ", e>>]

(***************************************************************************)
(* LLMJudge: evaluate_single and evaluate_batch                            *)
(***************************************************************************)
\* the longest batch whose cases take any expected verdict and any reply
MaxBatch == 3

\* the ceiling on simultaneous requests the specification speaks of
JudgeCeiling == 10

ExpectedVerdicts == {"PASS", "FAIL"}
ResultVerdicts   == {"PASS", "FAIL", "ERROR"}

\* a TestCase as the judge reads it: id and expected_verdict
JudgeCase(i, ev) == [id |-> i, expected_verdict |-> ev]

ShortBatches ==
    UNION {{[i \in 1..n |-> JudgeCase(i, ev[i])] : ev \in [1..n -> ExpectedVerdicts]}
           : n \in 0..MaxBatch}
\* one case more than the ceiling
LongBatch == [i \in 1..(JudgeCeiling + 1) |-> JudgeCase(i, "PASS")]
Batches == ShortBatches \cup {LongBatch}

\* What one litellm.acompletion request produces: it raises (request_failed),
\* its content is not JSON (bad_json), the JSON lacks a field (missing_field),
\* or it is an object with a verdict and a reasoning.  error is the text of
\* the exception the reply makes evaluate_single raise, "" if it raises none.
Reply(k, v, r, e) == [kind |-> k, verdict |-> v, reasoning |-> r, error |-> e]
NoReply == Reply("none", "none", "", "")
ObjectReplies ==
    {Reply("object", v, "Matches the policy", "") : v \in ResultVerdicts}
      \cup {Reply("object", "MAYBE", "Unsure",
                  "Input should be 'PASS', 'FAIL' or 'ERROR'")}
FailedReplies ==
    {Reply("request_failed", "none", "", "API error"),
     Reply("bad_json", "none", "", "Expecting value"),
     Reply("missing_field", "none", "", "'verdict'")}
Replies == ObjectReplies \cup FailedReplies
\* the replies the cases of a batch may get; a long batch gets the plain one
RepliesFor(cases) ==
    IF Len(cases) <= MaxBatch THEN Replies
    ELSE {Reply("object", "PASS", "Matches the policy", "")}

EvaluationResult(id, v, r, c) ==
    [test_case_id |-> id, actual_verdict |-> v, reasoning |-> r, correct |-> c]
NoResult == EvaluationResult(0, "none", <<>>, FALSE)

\* what a coroutine hands to its awaiter: a result, or an exception
Returns(r) == [raised |-> NoError, result |-> r]
Raises(e)  == [raised |-> <<e>>, result |-> NoResult]

EvaluateSingle_NoCatchAll(tc, reply) ==
    IF reply.kind = "request_failed"
    THEN Raises(reply.error)
    ELSE IF reply.kind \in {"bad_json", "missing_field"}
    THEN Returns(EvaluationResult(tc.id, "ERROR",
                     <<"Failed to parse LLM response: ", reply.error>>, FALSE))
    ELSE IF reply.verdict \notin ResultVerdicts
    THEN Raises(reply.error)
    ELSE Returns(EvaluationResult(tc.id, reply.verdict, <<reply.reasoning>>,
                     reply.verdict = tc.expected_verdict))

EvaluateSingle_CorrectIsPass(tc, reply) ==
    IF reply.kind = "request_failed"
    THEN Returns(EvaluationResult(tc.id, "ERROR",
                     <<"Evaluation error: ", reply.error>>, FALSE))
    ELSE IF reply.kind \in {"bad_json", "missing_field"}
    THEN Returns(EvaluationResult(tc.id, "ERROR",
                     <<"Failed to parse LLM response: ", reply.error>>, FALSE))
    ELSE IF reply.verdict \notin ResultVerdicts
    THEN Returns(EvaluationResult(tc.id, "ERROR",
                     <<"Evaluation error: ", reply.error>>, FALSE))
    ELSE Returns(EvaluationResult(tc.id, reply.verdict, <<reply.reasoning>>,
                     reply.verdict = "PASS"))

\* LLMJudge.evaluate_single once its request has produced reply
EvaluateSingle(tc, reply) ==
    IF reply.kind = "request_failed"
    THEN \* except Exception
         Returns(EvaluationResult(tc.id, "ERROR",
                     <<"Evaluation error: ", reply.error>>, FALSE))
    ELSE IF reply.kind \in {"bad_json", "missing_field"}
    THEN \* except (json.JSONDecodeError, KeyError)
         Returns(EvaluationResult(tc.id, "ERROR",
                     <<"Failed to parse LLM response: ", reply.error>>, FALSE))
    ELSE IF reply.verdict \notin ResultVerdicts
    THEN \* EvaluationResult(...) fails validation inside the try
         Returns(EvaluationResult(tc.id, "ERROR",
                     <<"Evaluation error: ", reply.error>>, FALSE))
    ELSE Returns(EvaluationResult(tc.id, reply.verdict, <<reply.reasoning>>,
                     reply.verdict = tc.expected_verdict))

Done(tasks) == {k \in DOMAIN tasks : tasks[k] = "done"}
InFlight(tasks) == {k \in DOMAIN tasks : tasks[k] = "inflight"}

StoreResult_CompletionOrder(results, tasks, i, r) ==
    [results EXCEPT ![Cardinality(Done(tasks)) + 1] = r]

\* asyncio.gather keeps the result of the i-th awaitable in the i-th place
StoreResult(results, tasks, i, r) == [results EXCEPT ![i] = r]

JudgeInit ==
    /\ jpc = "idle"
    /\ jcases = <<>>
    /\ jtask = <<>>
    /\ jreply = <<>>
    /\ jresults = <<>>
    /\ jinverted = FALSE
    /\ joutput = <<>>
    /\ jraised = NoError

\* a caller awaits evaluate_batch(cases): one coroutine per case is handed
\* to asyncio.gather
CallEvaluateBatch(cases) ==
    /\ jpc = "idle"
    /\ jpc' = "gather"
    /\ jcases' = cases
    /\ jtask' = [i \in 1..Len(cases) |-> "created"]
    /\ jreply' = [i \in 1..Len(cases) |-> NoReply]
    /\ jresults' = [i \in 1..Len(cases) |-> NoResult]
    /\ jinverted' = FALSE
    /\ joutput' = <<>>
    /\ jraised' = NoError
    /\ UNCHANGED notJudgeVars

\* the event loop starts the next task, which runs up to its await of
\* litellm.acompletion: tasks start in the order gather created them and
\* nothing makes one wait for another
Dispatch(i) ==
    /\ jpc = "gather"
    /\ i \in DOMAIN jtask
    /\ jtask[i] = "created"
    /\ \A k \in 1..(i - 1) : jtask[k] # "created"
    /\ jtask' = [jtask EXCEPT ![i] = "inflight"]
    /\ UNCHANGED <<jpc, jcases, jreply, jresults, jinverted, joutput, jraised>>
    /\ UNCHANGED notJudgeVars

\* the request of case i produces reply and evaluate_single runs to its end;
\* an exception leaving it leaves gather and evaluate_batch at once
Complete(i, reply) ==
    /\ jpc = "gather"
    /\ i \in DOMAIN jtask
    /\ jtask[i] = "inflight"
    /\ reply \in RepliesFor(jcases)
    /\ LET out == EvaluateSingle(jcases[i], reply)
       IN  /\ jraised' = out.raised
           /\ jpc' = IF out.raised = NoError THEN "gather" ELSE "raised"
           /\ jresults' = IF out.raised = NoError
                          THEN StoreResult(jresults, jtask, i, out.result)
                          ELSE jresults
    /\ jtask' = [jtask EXCEPT ![i] = "done"]
    /\ jreply' = [jreply EXCEPT ![i] = reply]
    /\ jinverted' = (jinverted \/ \E k \in 1..(i - 1) : jtask[k] # "done")
    /\ UNCHANGED <<jcases, joutput>>
    /\ UNCHANGED notJudgeVars

\* every task is done: gather hands over its list, evaluate_batch returns it
GatherReturn ==
    /\ jpc = "gather"
    /\ Done(jtask) = DOMAIN jtask
    /\ joutput' = jresults
    /\ jpc' = "done"
    /\ UNCHANGED <<jcases, jtask, jreply, jresults, jinverted, jraised>>
    /\ UNCHANGED notJudgeVars

\* the caller has its list, or the exception
JudgeReturn ==
    /\ jpc \in {"done", "raised"}
    /\ jpc' = "idle"
    /\ jcases' = <<>>
    /\ jtask' = <<>>
    /\ jreply' = <<>>
    /\ jresults' = <<>>
    /\ jinverted' = FALSE
    /\ joutput' = <<>>
    /\ jraised' = NoError
    /\ UNCHANGED notJudgeVars

JudgeNext ==
    \/ \E cases \in Batches : CallEvaluateBatch(cases)
    \/ \E i \in 1..(JudgeCeiling + 1) : Dispatch(i)
    \/ \E i \in 1..(JudgeCeiling + 1) : \E reply \in Replies : Complete(i, reply)
    \/ GatherReturn
    \/ JudgeReturn

(***************************************************************************)
(* BaseDSPyAdapter._extract_optimized_prompt                               *)
(***************************************************************************)
\* the longest list of demos an optimized module carries
MaxDemos == 2

\* An attribute of a Python object: absent (hasattr is false), None, or a
\* value.  Texts are sequences of pieces, so that "a" + "b" is <<"a", "b">>.
AbsentStr  == [kind |-> "absent", val |-> ""]
NoneStr    == [kind |-> "none", val |-> ""]
Str(t)     == [kind |-> "value", val |-> t]
AbsentList == [kind |-> "absent", val |-> <<>>]
NoneList   == [kind |-> "none", val |-> <<>>]
List(l)    == [kind |-> "value", val |-> l]

\* getattr(obj, attr, default)
GetAttr(a, default) == IF a.kind = "absent" THEN default ELSE a.val

TruthyStr(a) == a.kind = "value" /\ a.val # ""

TruthyList_NotNone(a) == a.kind = "value"

\* bool(x) of an attribute that holds a list, None, or is absent
TruthyList(a) == a.kind = "value" /\ Len(a.val) > 0

\* the demos an optimizer leaves on the predictor
Demos ==
    {[input_text |-> Str("Example input 1"), verdict |-> Str("PASS"),
      reasoning |-> Str("Example reasoning 1")],
     [input_text |-> Str("Example input 2"), verdict |-> Str("FAIL"),
      reasoning |-> Str("Example reasoning 2")],
     [input_text |-> Str("Example input 3"), verdict |-> AbsentStr,
      reasoning |-> AbsentStr]}
DemoLists == UNION {[1..n -> Demos] : n \in 0..MaxDemos}

\* the optimized modules: predictor.signature absent, None or present, its
\* instructions and the predictor's demos absent, None, empty or filled
Modules ==
    {[signature |-> sg, instructions |-> ins, demos |-> dm] :
        sg \in {"absent", "none", "present"},
        ins \in {AbsentStr, NoneStr, Str(""),
                 Str("Updated instructions from optimizer")},
        dm \in {AbsentList, NoneList} \cup {List(l) : l \in DemoLists}}
OriginalPrompts == {"Original prompt", ""}
AdapterNames == {"bootstrap_fewshot", "miprov2", "copro"}

NoExtraction == [optimized_prompt |-> <<>>, modification_notes |-> <<>>]

\* sep.join(parts), each part a sequence of pieces
RECURSIVE Join(_, _)
Join(sep, parts) ==
    IF Len(parts) = 0 THEN <<>>
    ELSE IF Len(parts) = 1 THEN parts[1]
    ELSE parts[1] \o <<sep>> \o Join(sep, Tail(parts))

DemoBlock_ZeroBased(i, demo) ==
    <<"\n### Example ", ToString(i - 1), ":\n",
      "Input: ", GetAttr(demo.input_text, "N/A"), "\n",
      "Verdict: ", GetAttr(demo.verdict, "N/A"), "\n",
      "Reasoning: ", GetAttr(demo.reasoning, "N/A")>>

\* the f-string appended for the i-th demo
DemoBlock(i, demo) ==
    <<"\n### Example ", ToString(i), ":\n",
      "Input: ", GetAttr(demo.input_text, "N/A"), "\n",
      "Verdict: ", GetAttr(demo.verdict, "N/A"), "\n",
      "Reasoning: ", GetAttr(demo.reasoning, "N/A")>>

\* _extract_optimized_prompt(optimized_module, original_prompt) of the
\* adapter called name
ExtractOptimizedPrompt(module, original_prompt, name) ==
    LET hasInstructions ==
            /\ module.signature = "present"
            /\ TruthyStr(module.instructions)
        hasDemos == TruthyList(module.demos)
        demos == module.demos.val
        instructionParts ==
            IF hasInstructions THEN <<(<<module.instructions.val>>)>> ELSE <<>>
        instructionNotes ==
            IF hasInstructions
            THEN <<(<<"Updated instructions from optimizer">>)>> ELSE <<>>
        demoParts ==
            IF hasDemos
            THEN <<(<<"\n\n## Examples:">>)>>
                   \o [i \in 1..Len(demos) |-> DemoBlock(i, demos[i])]
            ELSE <<>>
        demoNotes ==
            IF hasDemos
            THEN <<(<<"Added ", ToString(Len(demos)), " fewshot examples">>)>>
            ELSE <<>>
        parts == instructionParts \o demoParts
        notes == instructionNotes \o demoNotes
    IN  IF Len(parts) > 0
        THEN [optimized_prompt |->
                 IF \E k \in 1..Len(notes) :
                        notes[k] = <<"Updated instructions from optimizer">>
                 THEN Join("\n", parts)
                 ELSE <<original_prompt, "\n">> \o Join("\n", parts),
              modification_notes |-> Join("; ", notes)]
        ELSE [optimized_prompt |-> <<original_prompt>>,
              modification_notes |->
                 <<"Optimizer (", name, ") ran but made no changes">>]

ExtractInit ==
    /\ xpc = "idle"
    /\ xmodule = [signature |-> "absent", instructions |-> AbsentStr,
                  demos |-> AbsentList]
    /\ xoriginal = ""
    /\ xname = "bootstrap_fewshot"
    /\ xresult = NoExtraction

\* an adapter's optimize hands the compiled module to the extraction, which
\* runs to its return
CallExtract(module, original_prompt, name) ==
    /\ xpc = "idle"
    /\ xpc' = "done"
    /\ xmodule' = module
    /\ xoriginal' = original_prompt
    /\ xname' = name
    /\ xresult' = ExtractOptimizedPrompt(module, original_prompt, name)
    /\ UNCHANGED notExtractVars

\* the adapter returns the pair
ExtractReturn ==
    /\ xpc = "done"
    /\ xpc' = "idle"
    /\ xmodule' = [signature |-> "absent", instructions |-> AbsentStr,
                   demos |-> AbsentList]
    /\ xoriginal' = ""
    /\ xname' = "bootstrap_fewshot"
    /\ xresult' = NoExtraction
    /\ UNCHANGED notExtractVars

ExtractNext ==
    \/ \E module \in Modules : \E original_prompt \in OriginalPrompts :
          \E name \in AdapterNames : CallExtract(module, original_prompt, name)
    \/ ExtractReturn

(***************************************************************************)
(* Adapters' optimize calls as tasks of one asyncio event loop             *)
(***************************************************************************)
\* the optimize calls that may be in flight together
Tasks == {1, 2}

\* the steps other tasks of the loop (an evaluate_batch) are followed for
MaxTicks == 2

\* A model name is the sequence of its pieces, "/" being a piece of its
\* own: "openai/gpt-4o-mini" is <<"openai", "/", "gpt-4o-mini">>.
ModelName(m) == <<m>>

\* model names that already carry a provider prefix ("/" in model)
PrefixedModels == {<<"openai", "/", "gpt-4o-mini">>}
LoopModels == {ModelName(m) : m \in Models} \cup PrefixedModels

ModelProvider_AlwaysOpenAI(m) == "openai"

\* MODEL_PROVIDER_MAP.get(model, "openai")
ModelProvider(m) ==
    IF m \in {ModelName("gpt-4o"), ModelName("gpt-4o-mini")} THEN "openai"
    ELSE IF m \in {ModelName("claude-3-5-sonnet-20241022"),
                   ModelName("claude-3-5-haiku-20241022")} THEN "anthropic"
    ELSE "openai"

\* get_dspy_model_name(model)
GetDspyModelName(m) ==
    IF "/" \in Range(m) THEN m ELSE <<ModelProvider(m), "/">> \o m

\* the model a name built from pieces ends in
ModelOf(name) == name[Len(name)]

NoName == <<>>
\* dspy.LM(name)
LM(name) == [model |-> name]
NoLM == LM(NoName)

\* dspy.context(lm=...).__enter__
EnterContext(stack, lm) == Append(stack, lm)

ExitContext_Keep(stack) == stack

\* dspy.context(...).__exit__: the overrides are what they were before
ExitContext(stack) == SubSeq(stack, 1, Len(stack) - 1)

EffectiveLM_Global(stack, global) == global

\* dspy.settings.lm as code on the loop's thread reads it
EffectiveLM(stack, global) ==
    IF Len(stack) > 0 THEN stack[Len(stack)] ELSE global

LoopInit ==
    /\ cpc = [t \in Tasks |-> "idle"]
    /\ cfw = [t \in Tasks |-> "dspy"]
    /\ cmodel = [t \in Tasks |-> ModelName("gpt-4o")]
    /\ cengine = [t \in Tasks |-> NoName]
    /\ cran = [t \in Tasks |-> NoName]
    /\ cout = [t \in Tasks |-> "none"]
    /\ centered = [t \in Tasks |-> 0]
    /\ cexited = [t \in Tasks |-> 0]
    /\ loop = 0
    /\ ctxStack = <<>>
    /\ globalLM = NoLM
    /\ coverlap = FALSE
    /\ ticks = 0

\* a caller creates the task of an optimize call; the adapter is of
\* framework fw and the OptimizationConfig carries model m
CallAdapter(t, fw, m) ==
    /\ cpc[t] = "idle"
    /\ cpc' = [cpc EXCEPT ![t] = "called"]
    /\ cfw' = [cfw EXCEPT ![t] = fw]
    /\ cmodel' = [cmodel EXCEPT ![t] = m]
    /\ UNCHANGED <<cengine, cran, cout, centered, cexited, loop, ctxStack,
                   globalLM, coverlap, ticks>>
    /\ UNCHANGED notLoopVars

\* The loop runs task t up to its engine call.  A DSPy adapter enters
\* dspy.context and calls optimizer.compile itself: the task keeps the
\* loop's thread.  An Opik adapter builds its optimizer with config.model
\* and awaits asyncio.to_thread(optimizer.optimize_prompt, ...): the engine
\* runs in a worker thread and the task gives the loop back.
StartEngine(t) ==
    /\ cpc[t] = "called"
    /\ loop = 0
    /\ cpc' = [cpc EXCEPT ![t] = "engine"]
    /\ IF cfw[t] = "dspy"
       THEN /\ ctxStack' = EnterContext(ctxStack, LM(GetDspyModelName(cmodel[t])))
            /\ centered' = [centered EXCEPT ![t] = @ + 1]
            /\ loop' = t
            /\ UNCHANGED cengine
       ELSE /\ cengine' = [cengine EXCEPT ![t] = cmodel[t]]
            /\ loop' = 0
            /\ UNCHANGED <<ctxStack, centered>>
    /\ coverlap' = (coverlap \/ \E u \in Tasks \ {t} : cpc[u] = "engine")
    /\ UNCHANGED <<cfw, cmodel, cran, cout, cexited, globalLM, ticks>>
    /\ UNCHANGED notLoopVars

\* The engine call of task t ends, returning (o = "ok") or raising.  In a
\* DSPy adapter the with block is left either way and optimize returns or
\* raises to the registry without a suspension; the worker thread of an
\* Opik adapter completes the future the task awaits.
FinishEngine(t, o) ==
    /\ cpc[t] = "engine"
    /\ cout' = [cout EXCEPT ![t] = o]
    /\ IF cfw[t] = "dspy"
       THEN /\ cran' = [cran EXCEPT ![t] = EffectiveLM(ctxStack, globalLM).model]
            /\ ctxStack' = ExitContext(ctxStack)
            /\ cexited' = [cexited EXCEPT ![t] = @ + 1]
            /\ cpc' = [cpc EXCEPT ![t] = "done"]
            /\ loop' = 0
       ELSE /\ cran' = [cran EXCEPT ![t] = cengine[t]]
            /\ cpc' = [cpc EXCEPT ![t] = "resume"]
            /\ UNCHANGED <<ctxStack, cexited, loop>>
    /\ UNCHANGED <<cfw, cmodel, cengine, centered, globalLM, coverlap, ticks>>
    /\ UNCHANGED notLoopVars

\* the loop resumes the task of an Opik adapter after its await; it runs
\* to the return of optimize
Resume(t) ==
    /\ cpc[t] = "resume"
    /\ loop = 0
    /\ cpc' = [cpc EXCEPT ![t] = "done"]
    /\ UNCHANGED <<cfw, cmodel, cengine, cran, cout, centered, cexited, loop,
                   ctxStack, globalLM, coverlap, ticks>>
    /\ UNCHANGED notLoopVars

\* the caller of task t has its response
TaskReturn(t) ==
    /\ cpc[t] = "done"
    /\ cpc' = [cpc EXCEPT ![t] = "idle"]
    /\ cfw' = [cfw EXCEPT ![t] = "dspy"]
    /\ cmodel' = [cmodel EXCEPT ![t] = ModelName("gpt-4o")]
    /\ cengine' = [cengine EXCEPT ![t] = NoName]
    /\ cran' = [cran EXCEPT ![t] = NoName]
    /\ cout' = [cout EXCEPT ![t] = "none"]
    /\ centered' = [centered EXCEPT ![t] = 0]
    /\ cexited' = [cexited EXCEPT ![t] = 0]
    /\ coverlap' = (coverlap /\ \E u \in Tasks \ {t} : cpc[u] # "idle")
    /\ ticks' = IF \A u \in Tasks \ {t} : cpc[u] = "idle" THEN 0 ELSE ticks
    /\ UNCHANGED <<loop, ctxStack, globalLM>>
    /\ UNCHANGED notLoopVars

\* another task of the loop (a request of a concurrent evaluate_batch) takes
\* a step: the loop's thread must be free
OtherTaskStep ==
    /\ loop = 0
    /\ ticks < MaxTicks
    /\ \E t \in Tasks : cpc[t] # "idle"
    /\ ticks' = ticks + 1
    /\ UNCHANGED <<cpc, cfw, cmodel, cengine, cran, cout, centered, cexited,
                   loop, ctxStack, globalLM, coverlap>>
    /\ UNCHANGED notLoopVars

LoopNext ==
    \/ \E t \in Tasks : \E fw \in DOMAIN Factories : \E m \in LoopModels :
          CallAdapter(t, fw, m)
    \/ \E t \in Tasks : StartEngine(t)
    \/ \E t \in Tasks : \E o \in {"ok", "raised"} : FinishEngine(t, o)
    \/ \E t \in Tasks : Resume(t)
    \/ \E t \in Tasks : TaskReturn(t)
    \/ OtherTaskStep

(***************************************************************************)
(* Single calls of the factories and of the adapters' helper functions     *)
(***************************************************************************)
NoArgs   == [kind |-> "none"]
NoReturn == [kind |-> "none"]

CallInit ==
    /\ kpc = "idle"
    /\ kop = "none"
    /\ karg = NoArgs
    /\ kres = NoReturn

\* the type names handed to a factory: the registered ones of both
\* families and some that no factory knows
FactoryTypeInputs == TypeInputs \cup {"", "BootstrapFewShot", "MIPROv2"}
\* the configurations handed to a factory
FactoryConfigs ==
    {[OptimizationConfig(m) EXCEPT !.seed = sd] :
        m \in LoopModels, sd \in {42, 7}}

\* factory.create_adapter(optimizer_type, config) of the factory of fw
CallCreateAdapter(fw, ty, cfg) ==
    /\ kpc = "idle"
    /\ kpc' = "done"
    /\ kop' = "create_adapter"
    /\ karg' = [framework |-> fw, optimizer_type |-> ty, config |-> cfg]
    /\ kres' = CreateAdapter(fw, ty, cfg)
    /\ UNCHANGED notCallVars

\* the caller has the value or the exception
CallReturn ==
    /\ kpc = "done"
    /\ kpc' = "idle"
    /\ kop' = "none"
    /\ karg' = NoArgs
    /\ kres' = NoReturn
    /\ UNCHANGED notCallVars

\* A text whose length matters is the sequence of its blocks of
\* PreviewBlock characters; text[:100] keeps the first two.
PreviewBlock == 50
Preview(text) ==
    SubSeq(text, 1, IF Len(text) * PreviewBlock <= 100 THEN Len(text) ELSE 2)

\* a dspy.Example built by _prepare_examples, and a dspy.Prediction
Example(ev, text, why) ==
    [expected_verdict |-> ev, input_text |-> text, reasoning |-> why]
Prediction(v) == [verdict |-> v]

\* the verdicts a predictor may give, well-formed or not
PredictedVerdicts == {"PASS", "FAIL", "pass", "ERROR", ""}
InputTexts == {<<>>, <<"block 1">>, <<"block 1", "block 2">>,
               <<"block 1", "block 2", "block 3">>}
Examples ==
    {Example(ev, text, "Ground truth") :
        ev \in ExpectedVerdicts, text \in InputTexts}

NoFeedback == <<>>

VerdictsMatch_IgnoreCase(expected, actual) ==
    \/ expected = actual
    \/ expected = "PASS" /\ actual = "pass"

\* expected == actual
VerdictsMatch(expected, actual) == expected = actual

\* The function create_metric(with_feedback) returns, applied to
\* (example, pred): the floats 1.0 and 0.0 are written 1 and 0; example and
\* pred in the result are the two objects as the call leaves them.
ApplyMetric(with_feedback, example, pred) ==
    LET expected == example.expected_verdict
        actual   == pred.verdict
    IN  IF ~with_feedback
        THEN [kind |-> "float",
              score |-> IF VerdictsMatch(expected, actual) THEN 1 ELSE 0,
              feedback |-> NoFeedback, example |-> example, pred |-> pred]
        ELSE IF VerdictsMatch(expected, actual)
        THEN [kind |-> "prediction", score |-> 1,
              feedback |-> <<"Correct verdict">>,
              example |-> example, pred |-> pred]
        ELSE [kind |-> "prediction", score |-> 0,
              feedback |-> <<"Expected ", expected, " but got ", actual, ". ",
                             "Input: '">> \o Preview(example.input_text)
                           \o <<"...' ", "Ground truth reasoning: ",
                                example.reasoning>>,
              example |-> example, pred |-> pred]

\* create_metric(with_feedback)(example, pred)
CallMetric(with_feedback, example, pred) ==
    /\ kpc = "idle"
    /\ kpc' = "done"
    /\ kop' = "metric"
    /\ karg' = [with_feedback |-> with_feedback, example |-> example,
                pred |-> pred]
    /\ kres' = ApplyMetric(with_feedback, example, pred)
    /\ UNCHANGED notCallVars

\* the longest message list an Opik result carries
MaxMessages == 2

\* a message of an optimized ChatPrompt: a dict or an object, its content
\* absent, None, empty or a text
Messages ==
    {[kind |-> k, content |-> c] :
        k \in {"dict", "object"},
        c \in {AbsentStr, NoneStr, Str(""), Str("Optimized system prompt")}}
MessageLists == UNION {[1..n -> Messages] : n \in 0..MaxMessages}

\* an OptimizationResult: result.prompt absent, None or a ChatPrompt whose
\* messages are absent, None or a list
OpikResults ==
    {[prompt |-> p, messages |-> ms] :
        p \in {"absent", "none", "present"},
        ms \in {AbsentList, NoneList} \cup {List(l) : l \in MessageLists}}
OpikNames == {"evolutionary", "metaprompt"}

\* BaseOpikAdapter._extract_result(result, original_prompt) of the adapter
\* called name; the prompt returned is None when the content is None
ExtractResult(result, original_prompt, name) ==
    IF result.prompt = "present"
    THEN LET messages == GetAttr(result.messages, <<>>)
         IN  IF TruthyList(result.messages) /\ Len(messages) > 0
             THEN LET system_msg == messages[1]
                  IN  [optimized_prompt |->
                          IF system_msg.content.kind = "absent"
                          THEN Str(original_prompt)
                          ELSE system_msg.content,
                       modification_notes |-> <<"Optimized by Opik ", name>>]
             ELSE [optimized_prompt |-> Str(original_prompt),
                   modification_notes |->
                      <<"Optimizer (", name, ") ran but made no changes">>]
    ELSE [optimized_prompt |-> Str(original_prompt),
          modification_notes |->
             <<"Optimizer (", name, ") ran but made no changes">>]

\* adapter._extract_result(result, original_prompt)
CallExtractResult(result, original_prompt, name) ==
    /\ kpc = "idle"
    /\ kpc' = "done"
    /\ kop' = "extract_result"
    /\ karg' = [result |-> result, original_prompt |-> original_prompt,
                name |-> name]
    /\ kres' = ExtractResult(result, original_prompt, name)
    /\ UNCHANGED notCallVars

\* with_feedback of the create_metric call in the optimize of the DSPy
\* adapter called ty
DSPyWithFeedback(ty) == ty \in {"miprov2", "copro"}

\* convert_test_cases_to_dataset: the dict made of one train case
DatasetItem(example) ==
    [input_text |-> example.input_text,
     expected_verdict |-> example.expected_verdict,
     reasoning |-> example.reasoning]

\* An LLM output is the sequence of its words; the words whose upper case
\* holds "PASS", and those whose upper case holds "FAIL"
PassWords == {"PASS", "pass", "Passed"}
FailWords == {"FAIL", "fail", "Failure"}
LLMOutputs == {<<"PASS">>, <<"fail">>, <<"Passed", "not", "Failure">>,
               <<"unsure">>, <<>>}

\* metric_function(dataset_item, llm_output) of create_opik_metric: a bare
\* float, written 1 or 0
OpikMetric(dataset_item, llm_output) ==
    LET expected == dataset_item.expected_verdict
        actual   == IF \E i \in 1..Len(llm_output) : llm_output[i] \in PassWords
                    THEN "PASS"
                    ELSE IF \E i \in 1..Len(llm_output) :
                               llm_output[i] \in FailWords
                    THEN "FAIL"
                    ELSE ""
    IN  [kind |-> "float", score |-> IF expected = actual THEN 1 ELSE 0,
         feedback |-> NoFeedback]

\* The optimize of the adapter ty of framework fw builds its metric and
\* hands it to its engine, which scores the output of one run on one train
\* case with it.
CallAdapterMetric(fw, ty, example, llm_output) ==
    /\ kpc = "idle"
    /\ ty \in Range(Factories[fw])
    /\ kpc' = "done"
    /\ kop' = "adapter_metric"
    /\ karg' = [framework |-> fw, optimizer_type |-> ty, example |-> example,
                llm_output |-> llm_output]
    /\ kres' = IF fw = "dspy"
               THEN ApplyMetric(DSPyWithFeedback(ty), example,
                                Prediction(IF Len(llm_output) > 0
                                           THEN llm_output[1] ELSE ""))
               ELSE OpikMetric(DatasetItem(example), llm_output)
    /\ UNCHANGED notCallVars

\* the model names handed to get_dspy_model_name: unprefixed ones the
\* lookup table has, unprefixed ones it lacks, and prefixed ones
ModelNameInputs ==
    {ModelName(m) : m \in {"gpt-4o", "gpt-4o-mini",
                           "claude-3-5-sonnet-20241022",
                           "claude-3-5-haiku-20241022",
                           "mistral-large", "llama3"}}
      \cup {<<"openai", "/", "gpt-4o-mini">>,
            <<"anthropic", "/", "claude-3-5-haiku-20241022">>,
            <<"mistral", "/", "mistral-large">>,
            <<"azure", "/", "eu", "/", "gpt-4o">>,
            <<"/", "gpt-4o">>}

\* get_dspy_model_name(model), and the name it gives for its own result
CallGetDspyModelName(m) ==
    /\ kpc = "idle"
    /\ kpc' = "done"
    /\ kop' = "get_dspy_model_name"
    /\ karg' = [model |-> m]
    /\ kres' = [kind |-> "value", value |-> GetDspyModelName(m),
                again |-> GetDspyModelName(GetDspyModelName(m))]
    /\ UNCHANGED notCallVars

CallNext ==
    \/ \E fw \in DOMAIN Factories : \E ty \in FactoryTypeInputs :
          \E cfg \in FactoryConfigs : CallCreateAdapter(fw, ty, cfg)
    \/ \E m \in ModelNameInputs : CallGetDspyModelName(m)
    \/ \E with_feedback \in BOOLEAN : \E example \in Examples :
          \E v \in PredictedVerdicts :
             CallMetric(with_feedback, example, Prediction(v))
    \/ \E result \in OpikResults : \E name \in OpikNames :
          CallExtractResult(result, "Original prompt", name)
    \/ \E fw \in DOMAIN Factories : \E ty \in TypeInputs :
          \E example \in Examples : \E llm_output \in LLMOutputs :
             CallAdapterMetric(fw, ty, example, llm_output)
    \/ CallReturn

(***************************************************************************)
(* generate_test_cases                                                     *)
(***************************************************************************)
\* the longest list of cases the LLM generates
MaxGenerated == 2

\* a GeneratedTestCase of the LLM's structured output
GeneratedCases ==
    {[input_text |-> "Hello friend", expected_verdict |-> "PASS",
      difficulty |-> "clear_pass", reasoning |-> "Friendly greeting"],
     [input_text |-> "I hate you", expected_verdict |-> "FAIL",
      difficulty |-> "clear_fail", reasoning |-> "Hostile message"],
     [input_text |-> "You are killing it", expected_verdict |-> "PASS",
      difficulty |-> "tricky_positive", reasoning |-> "Praise"]}
GeneratedLists == UNION {[1..n -> GeneratedCases] : n \in 0..MaxGenerated}
GeneratedPrompts == {"You are a content moderation judge...", "Prompt"}
\* what call_llm raises: the request's exception, or its own ValueError
LLMErrors == {"LLM API error", "Failed to parse LLM response: invalid JSON"}

\* what a call_llm call produces
LLMFailure(e) ==
    [kind |-> "error", error |-> e, test_cases |-> <<>>, system_prompt |-> ""]
LLMCaseList(l) ==
    [kind |-> "cases", error |-> "", test_cases |-> l, system_prompt |-> ""]
LLMPrompt(p) ==
    [kind |-> "prompt", error |-> "", test_cases |-> <<>>, system_prompt |-> p]

\* call_llm(messages, response_model, model, temperature): the temperature
\* in tenths
LLMCall(response_model, m, tenths) ==
    [response_model |-> response_model, model |-> m, temperature |-> tenths]

NoGenerated == [kind |-> "none", test_cases |-> <<>>, system_prompt |-> ""]

\* the list comprehension of TestCase(...) over generated.test_cases; id is
\* the fresh uuid4 of the default factory, split the default None
ToTestCases(generated) ==
    [i \in 1..Len(generated) |->
        [id |-> i,
         input_text |-> generated[i].input_text,
         expected_verdict |-> generated[i].expected_verdict,
         reasoning |-> generated[i].reasoning,
         verified |-> FALSE,
         split |-> None]]

GenerateOutcome_Partial(cases, reply) ==
    IF reply.kind = "error"
    THEN [raised |-> NoError,
          result |-> [kind |-> "tuple", test_cases |-> cases,
                      system_prompt |-> ""]]
    ELSE [raised |-> NoError,
          result |-> [kind |-> "tuple", test_cases |-> cases,
                      system_prompt |-> reply.system_prompt]]

\* how generate_test_cases ends once its second call_llm has produced
\* reply: nothing catches what call_llm raises
GenerateOutcome(cases, reply) ==
    IF reply.kind = "error"
    THEN [raised |-> <<reply.error>>, result |-> NoGenerated]
    ELSE [raised |-> NoError,
          result |-> [kind |-> "tuple", test_cases |-> cases,
                      system_prompt |-> reply.system_prompt]]

GenInit ==
    /\ gpc = "idle"
    /\ gmodel = "gpt-4o"
    /\ gcount = 50
    /\ gcalls = <<>>
    /\ greplies = <<>>
    /\ gcases = <<>>
    /\ gresult = NoGenerated
    /\ graised = NoError

\* generate_test_cases(intent, count, model) up to its first await: the
\* call that generates the test cases
CallGenerate(count, m) ==
    /\ gpc = "idle"
    /\ gpc' = "cases"
    /\ gmodel' = m
    /\ gcount' = count
    /\ gcalls' = <<LLMCall("GeneratedTestCaseList", "gpt-4o", 8)>>
    /\ UNCHANGED <<greplies, gcases, gresult, graised>>
    /\ UNCHANGED notGenVars

\* the first call_llm raises: the exception leaves generate_test_cases
CasesCallFails(e) ==
    /\ gpc = "cases"
    /\ gpc' = "raised"
    /\ greplies' = Append(greplies, LLMFailure(e))
    /\ graised' = <<e>>
    /\ UNCHANGED <<gmodel, gcount, gcalls, gcases, gresult>>
    /\ UNCHANGED notGenVars

\* the first call_llm returns the generated list: the TestCases are built
\* and the call that generates the system prompt is made
CasesCallReturns(l) ==
    /\ gpc = "cases"
    /\ gpc' = "prompt"
    /\ greplies' = Append(greplies, LLMCaseList(l))
    /\ gcases' = ToTestCases(l)
    /\ gcalls' = Append(gcalls, LLMCall("GeneratedSystemPrompt", "gpt-4o", 7))
    /\ UNCHANGED <<gmodel, gcount, gresult, graised>>
    /\ UNCHANGED notGenVars

\* the second call_llm ends: generate_test_cases returns or raises
PromptCallEnds(reply) ==
    /\ gpc = "prompt"
    /\ LET out == GenerateOutcome(gcases, reply)
       IN  /\ gresult' = out.result
           /\ graised' = out.raised
           /\ gpc' = IF out.raised = NoError THEN "done" ELSE "raised"
    /\ greplies' = Append(greplies, reply)
    /\ gcases' = <<>>
    /\ UNCHANGED <<gmodel, gcount, gcalls>>
    /\ UNCHANGED notGenVars

\* the caller has the tuple, or the exception
GenReturn ==
    /\ gpc \in {"done", "raised"}
    /\ gpc' = "idle"
    /\ gmodel' = "gpt-4o"
    /\ gcount' = 50
    /\ gcalls' = <<>>
    /\ greplies' = <<>>
    /\ gcases' = <<>>
    /\ gresult' = NoGenerated
    /\ graised' = NoError
    /\ UNCHANGED notGenVars

GenNext ==
    \/ \E count \in {1, 50} : \E m \in Models : CallGenerate(count, m)
    \/ \E e \in LLMErrors : CasesCallFails(e)
    \/ \E l \in GeneratedLists : CasesCallReturns(l)
    \/ \E reply \in {LLMFailure(e) : e \in LLMErrors}
                      \cup {LLMPrompt(p) : p \in GeneratedPrompts} :
          PromptCallEnds(reply)
    \/ GenReturn

(***************************************************************************)
(* run_endpoint                                                            *)
(***************************************************************************)
NoStats == [kind |-> "none"]

\* sum(1 for r in results if test(r)), for the two tests of run_endpoint
RECURSIVE CountCorrect(_)
CountCorrect(results) ==
    IF results = <<>> THEN 0
    ELSE (IF Head(results).correct THEN 1 ELSE 0) + CountCorrect(Tail(results))

RECURSIVE CountErrors(_)
CountErrors(results) ==
    IF results = <<>> THEN 0
    ELSE (IF Head(results).actual_verdict = "ERROR" THEN 1 ELSE 0)
         + CountErrors(Tail(results))

\* round(passed / total * 100, 2) if total > 0 else 0, in hundredths of a
\* percent: the quotient rounded to the nearest hundredth (for the totals
\* reached no quotient lies half-way between two hundredths)
Accuracy(passed, total) ==
    IF total > 0 THEN (2 * passed * 10000 + total) \div (2 * total) ELSE 0

\* variant: a result with verdict ERROR is not taken out of the failed ones
RunStats_ErrorsAlsoFailed(results) ==
    LET total  == Len(results)
        passed == CountCorrect(results)
        errors == CountErrors(results)
    IN  [kind |-> "stats", total |-> total, passed |-> passed,
         failed |-> total - passed, errors |-> errors,
         accuracy |-> Accuracy(passed, total), results |-> results]

\* "Calculate statistics" and the RunStats built from them
RunStats(results) ==
    LET total  == Len(results)
        passed == CountCorrect(results)
        errors == CountErrors(results)
        failed == total - passed - errors
    IN  [kind |-> "stats", total |-> total, passed |-> passed,
         failed |-> failed, errors |-> errors,
         accuracy |-> Accuracy(passed, total), results |-> results]

RunInit == rstats = NoStats

\* results = await judge.evaluate_batch(request.test_cases) has returned:
\* run_endpoint computes the statistics and returns the RunStats
RunEndpoint ==
    /\ jpc = "done"
    /\ rstats = NoStats
    /\ rstats' = RunStats(joutput)
    /\ UNCHANGED notRunVars

\* the response is sent; the next request starts from nothing
RunReturn ==
    /\ rstats # NoStats
    /\ rstats' = NoStats
    /\ jpc' = "idle"
    /\ jcases' = <<>>
    /\ jtask' = <<>>
    /\ jreply' = <<>>
    /\ jresults' = <<>>
    /\ jinverted' = FALSE
    /\ joutput' = <<>>
    /\ jraised' = NoError
    /\ UNCHANGED notJudgeRunVars

\* a request to the run endpoint: evaluate_batch on the request's cases,
\* then the statistics
RunNext ==
    \/ \E cases \in Batches : rstats = NoStats /\ CallEvaluateBatch(cases)
    \/ \E i \in 1..(JudgeCeiling + 1) : Dispatch(i)
    \/ \E i \in 1..(JudgeCeiling + 1) : \E reply \in Replies : Complete(i, reply)
    \/ GatherReturn
    \/ RunEndpoint
    \/ RunReturn

(***************************************************************************)
(* OptimizerRegistry.optimize as a function of its arguments, and two      *)
(* calls that differ in results only                                       *)
(***************************************************************************)
\* the longest test_cases list the two calls are given
MaxPairCases == 2

PairInputs == UNION {CaseLists(n) : n \in 0..MaxPairCases}

\* the results argument: empty, or one EvaluationResult per case in which
\* the judge was right (correct) or wrong
PastVerdict(tc, right) ==
    IF right THEN tc.expected_verdict
    ELSE IF tc.expected_verdict = "PASS" THEN "FAIL" ELSE "PASS"
PastResults(cases) ==
    {<<>>} \cup
    {[i \in 1..Len(cases) |->
         EvaluationResult(cases[i].id, PastVerdict(cases[i], right[i]),
                          <<"because">>, right[i])]
       : right \in [1..Len(cases) -> BOOLEAN]}

\* variant: only the train cases the judge got wrong go to the adapter
AdapterTrainCases_FailedOnly(train, results) ==
    SelectSeq(train, LAMBDA tc :
        ~\E i \in 1..Len(results) :
            results[i].test_case_id = tc.id /\ results[i].correct)

\* the train_cases optimize passes to adapter.optimize and puts into the
\* response: its local train_cases; results is never read
AdapterTrainCases(train, results) == train

\* whether adapter.optimize was called, and its train_cases argument
NotHanded == [called |-> FALSE, train_cases |-> <<>>]
Handed(train) == [called |-> TRUE, train_cases |-> train]

\* how optimize(current_prompt, test_cases, results, framework,
\* optimizer_type, model) ends when the shuffle takes perm and the engine
\* does o: the exception raised, the train_cases adapter.optimize was
\* given, and the response
Optimize(p, cases, results, fw, ty, m, perm, o) ==
    LET err == ValidateOptimizer(fw, ty)
        tcs == [i \in 1..Len(cases) |-> i]
        sp  == IF ~HasSplit(cases, tcs)
               THEN SplitTestCases(cases, tcs, DefaultTrainRatio, perm)
               ELSE [heap  |-> cases,
                     train |-> FilterBySplit(cases, tcs, "train"),
                     test  |-> FilterBySplit(cases, tcs, "test")]
        train == AdapterTrainCases(Deref(sp.heap, sp.train), results)
        test  == Deref(sp.heap, sp.test)
        a     == CreateAdapter(fw, ty, OptimizationConfig(m))
        r     == IF o \in EngineErrors THEN OnAdapterError(p, o)
                 ELSE AdapterResult(a, p, o)
    IN  IF err # NoError
        THEN [raised |-> err, handed |-> NotHanded, response |-> NoResponse]
        ELSE IF NoTrainCases(train)
        THEN [raised |-> NoError, handed |-> NotHanded,
              response |-> OptimizeResponse(p,
                  <<"No training cases available for optimization">>,
                  train, test)]
        ELSE IF a.kind = "error"
        THEN [raised |-> a.message, handed |-> NotHanded,
              response |-> NoResponse]
        ELSE [raised |-> NoError, handed |-> Handed(train),
              response |-> OptimizeResponse(r.optimized_prompt,
                  r.modification_notes, train, test)]

PairInit ==
    /\ ppc = "idle"
    /\ pcases = <<>>
    /\ pcombo = <<"dspy", "bootstrap_fewshot">>
    /\ presults = <<>>
    /\ pout = <<>>

\* two calls of optimize that take the same shuffle and meet the same
\* engine, with results1 and results2 as their results
CallOptimizeTwice(cases, results1, results2, fw, ty, m, p) ==
    /\ ppc = "idle"
    /\ ppc' = "done"
    /\ pcases' = cases
    /\ pcombo' = <<fw, ty>>
    /\ presults' = <<results1, results2>>
    /\ \E perm \in ShufflePerms(Len(cases)) :
         \E o \in {"ok", "noop"} \cup EngineErrors :
           pout' = <<Optimize(p, cases, results1, fw, ty, m, perm, o),
                     Optimize(p, cases, results2, fw, ty, m, perm, o)>>
    /\ UNCHANGED notPairVars

\* the caller is finished with both
PairReturn ==
    /\ ppc = "done"
    /\ ppc' = "idle"
    /\ pcases' = <<>>
    /\ pcombo' = <<"dspy", "bootstrap_fewshot">>
    /\ presults' = <<>>
    /\ pout' = <<>>
    /\ UNCHANGED notPairVars

PairNext ==
    \/ \E cases \in PairInputs :
         \E results1 \in PastResults(cases) : \E results2 \in PastResults(cases) :
           \E fw \in DOMAIN Factories :
             \E ty \in {"bootstrap_fewshot", "evolutionary"} :
               \E m \in {"gpt-4o"} : \E p \in Prompts :
                 CallOptimizeTwice(cases, results1, results2, fw, ty, m, p)
    \/ PairReturn

(***************************************************************************)
(* The caller and the steps of OptimizerRegistry.optimize                  *)
(***************************************************************************)
Init ==
    /\ pc = "idle"
    /\ op = "none"
    /\ heap = <<>>
    /\ test_cases = <<>>
    /\ snapCases = <<>>
    /\ snapHeap = <<>>
    /\ framework = "dspy"
    /\ optimizer_type = "bootstrap_fewshot"
    /\ current_prompt = "Original"
    /\ model = "gpt-4o"
    /\ train_ratio = DefaultTrainRatio
    /\ train_cases = <<>>
    /\ test_split = <<>>
    /\ config = NoConfig
    /\ adapter = NoAdapter
    /\ outcome = "none"
    /\ response = NoResponse
    /\ raised = NoError
    /\ shuffleCalls = 0
    /\ engineCalls = 0
    /\ prev = NoPrev
    /\ JudgeInit
    /\ ExtractInit
    /\ LoopInit
    /\ CallInit
    /\ GenInit
    /\ RunInit
    /\ PairInit

\* no call in progress and no result held
AtRest == pc = "idle"

\* the locals and history of a call that starts
FreshCall ==
    /\ train_cases' = <<>>
    /\ test_split' = <<>>
    /\ config' = NoConfig
    /\ adapter' = NoAdapter
    /\ outcome' = "none"
    /\ response' = NoResponse
    /\ raised' = NoError
    /\ shuffleCalls' = 0
    /\ engineCalls' = 0

\* the caller calls optimize(current_prompt, test_cases, results, framework,
\* optimizer_type, model) with a list of its own
CallOptimize(cases, fw, ty, m, p) ==
    /\ AtRest
    /\ op' = "optimize"
    /\ pc' = "validate"
    /\ heap' = cases
    /\ test_cases' = [i \in 1..Len(cases) |-> i]
    /\ snapCases' = test_cases'
    /\ snapHeap' = heap'
    /\ framework' = fw
    /\ optimizer_type' = ty
    /\ current_prompt' = p
    /\ model' = m
    /\ train_ratio' = DefaultTrainRatio
    /\ prev' = NoPrev
    /\ FreshCall
    /\ UNCHANGED notRegistryVars

\* the caller passes the train_cases and test_cases of the response it just
\* got as the test_cases of the next optimize call
Refeed(fw, ty, m, trainFirst) ==
    /\ pc = "done"
    /\ op = "optimize"
    /\ response.kind = "response"
    /\ op' = "optimize"
    /\ pc' = "validate"
    /\ heap' = heap
    /\ test_cases' = IF trainFirst
                     THEN response.train_cases \o response.test_cases
                     ELSE response.test_cases \o response.train_cases
    /\ snapCases' = test_cases'
    /\ snapHeap' = heap
    /\ framework' = fw
    /\ optimizer_type' = ty
    /\ model' = m
    /\ prev' = [kind  |-> "prev",
                train |-> Deref(heap, response.train_cases),
                test  |-> Deref(heap, response.test_cases)]
    /\ UNCHANGED <<current_prompt, train_ratio>>
    /\ FreshCall
    /\ UNCHANGED notRegistryVars

\* the caller calls split_test_cases(test_cases, train_ratio) directly
CallSplit(cases, ratio) ==
    /\ AtRest
    /\ \E perm \in ShufflePerms(Len(cases)) :
         LET tcs == [i \in 1..Len(cases) |-> i]
             r   == SplitTestCases(cases, tcs, ratio, perm)
         IN  /\ heap' = r.heap
             /\ test_cases' = tcs
             /\ snapCases' = tcs
             /\ snapHeap' = cases
             /\ train_cases' = r.train
             /\ test_split' = r.test
    /\ op' = "split"
    /\ pc' = "done"
    /\ train_ratio' = ratio
    /\ config' = NoConfig
    /\ adapter' = NoAdapter
    /\ outcome' = "none"
    /\ response' = NoResponse
    /\ raised' = NoError
    /\ shuffleCalls' = 1
    /\ engineCalls' = 0
    /\ prev' = NoPrev
    /\ UNCHANGED <<framework, optimizer_type, current_prompt, model>>
    /\ UNCHANGED notRegistryVars

\* self.validate_optimizer(framework, optimizer_type)
Validate ==
    /\ pc = "validate"
    /\ LET err == ValidateOptimizer(framework, optimizer_type)
       IN  /\ raised' = err
           /\ pc' = IF err = NoError THEN "split" ELSE "raised"
    /\ UNCHANGED <<op, heap, test_cases, snapCases, snapHeap, framework,
                   optimizer_type, current_prompt, model, train_ratio,
                   train_cases, test_split, config, adapter, outcome,
                   response, shuffleCalls, engineCalls, prev>>
    /\ UNCHANGED notRegistryVars

\* "Auto-split if needed": the shuffling splitter, or the partition by tag
DetermineSplit ==
    /\ pc = "split"
    /\ IF ~HasSplit(heap, test_cases)
       THEN \E perm \in ShufflePerms(Len(test_cases)) :
              LET r == SplitTestCases(heap, test_cases, DefaultTrainRatio, perm)
              IN  /\ heap' = r.heap
                  /\ train_cases' = r.train
                  /\ test_split' = r.test
                  /\ shuffleCalls' = shuffleCalls + 1
       ELSE /\ train_cases' = FilterBySplit(heap, test_cases, "train")
            /\ test_split' = FilterBySplit(heap, test_cases, "test")
            /\ UNCHANGED <<heap, shuffleCalls>>
    /\ pc' = "check"
    /\ UNCHANGED <<op, test_cases, snapCases, snapHeap, framework,
                   optimizer_type, current_prompt, model, train_ratio, config,
                   adapter, outcome, response, raised, engineCalls, prev>>
    /\ UNCHANGED notRegistryVars

\* "Early return if no training data"
EarlyReturn ==
    /\ pc = "check"
    /\ NoTrainCases(train_cases)
    /\ response' = OptimizeResponse(current_prompt,
                      <<"No training cases available for optimization">>,
                      train_cases, test_split)
    /\ pc' = "done"
    /\ UNCHANGED <<op, heap, test_cases, snapCases, snapHeap, framework,
                   optimizer_type, current_prompt, model, train_ratio,
                   train_cases, test_split, config, adapter, outcome, raised,
                   shuffleCalls, engineCalls, prev>>
    /\ UNCHANGED notRegistryVars

\* "Create configuration"
BuildConfig ==
    /\ pc = "check"
    /\ ~NoTrainCases(train_cases)
    /\ config' = OptimizationConfig(model)
    /\ pc' = "create"
    /\ UNCHANGED <<op, heap, test_cases, snapCases, snapHeap, framework,
                   optimizer_type, current_prompt, model, train_ratio,
                   train_cases, test_split, adapter, outcome, response, raised,
                   shuffleCalls, engineCalls, prev>>
    /\ UNCHANGED notRegistryVars

\* "Get factory and create adapter" (outside the try block)
GetAdapter ==
    /\ pc = "create"
    /\ LET r == CreateAdapter(framework, optimizer_type, config)
       IN  IF r.kind = "error"
           THEN /\ raised' = r.message
                /\ pc' = "raised"
                /\ UNCHANGED adapter
           ELSE /\ adapter' = r
                /\ pc' = "invoke"
                /\ UNCHANGED raised
    /\ UNCHANGED <<op, heap, test_cases, snapCases, snapHeap, framework,
                   optimizer_type, current_prompt, model, train_ratio,
                   train_cases, test_split, config, outcome, response,
                   shuffleCalls, engineCalls, prev>>
    /\ UNCHANGED notRegistryVars

\* await adapter.optimize(...) returns; the response is built from it
AdapterReturns(o) ==
    /\ pc = "invoke"
    /\ engineCalls' = engineCalls + 1
    /\ outcome' = o
    /\ LET r == AdapterResult(adapter, current_prompt, o)
       IN  response' = OptimizeResponse(r.optimized_prompt,
                          r.modification_notes, train_cases, test_split)
    /\ pc' = "done"
    /\ UNCHANGED <<op, heap, test_cases, snapCases, snapHeap, framework,
                   optimizer_type, current_prompt, model, train_ratio,
                   train_cases, test_split, config, adapter, raised,
                   shuffleCalls, prev>>
    /\ UNCHANGED notRegistryVars

\* await adapter.optimize(...) raises an Exception e; the except clause
\* turns it into the degraded result and the response is built from that
AdapterRaises(e) ==
    /\ pc = "invoke"
    /\ engineCalls' = engineCalls + 1
    /\ outcome' = e
    /\ LET r == OnAdapterError(current_prompt, e)
       IN  response' = OptimizeResponse(r.optimized_prompt,
                          r.modification_notes, train_cases, test_split)
    /\ pc' = "done"
    /\ UNCHANGED <<op, heap, test_cases, snapCases, snapHeap, framework,
                   optimizer_type, current_prompt, model, train_ratio,
                   train_cases, test_split, config, adapter, raised,
                   shuffleCalls, prev>>
    /\ UNCHANGED notRegistryVars

\* the caller is finished with the result (or the exception) of a call
Return ==
    /\ pc \in {"done", "raised"}
    /\ pc' = "idle"
    /\ op' = "none"
    /\ heap' = <<>>
    /\ test_cases' = <<>>
    /\ snapCases' = <<>>
    /\ snapHeap' = <<>>
    /\ framework' = "dspy"
    /\ optimizer_type' = "bootstrap_fewshot"
    /\ current_prompt' = "Original"
    /\ model' = "gpt-4o"
    /\ train_ratio' = DefaultTrainRatio
    /\ prev' = NoPrev
    /\ FreshCall
    /\ UNCHANGED notRegistryVars

Next ==
    \/ \E cases \in ShortInputs, fw \in FrameworkInputs, ty \in TypeInputs,
          m \in Models, p \in Prompts : CallOptimize(cases, fw, ty, m, p)
    \/ \E fw \in FrameworkInputs, ty \in TypeInputs, m \in Models,
          trainFirst \in BOOLEAN : Refeed(fw, ty, m, trainFirst)
    \/ \E cases \in ShortInputs \cup LongInputs, ratio \in Ratios :
          CallSplit(cases, ratio)
    \/ Validate
    \/ DetermineSplit
    \/ EarlyReturn
    \/ BuildConfig
    \/ GetAdapter
    \/ \E o \in {"ok", "noop"} : AdapterReturns(o)
    \/ \E e \in EngineErrors : AdapterRaises(e)
    \/ Return

Spec == Init /\ [][Next]_vars

\* the judge alone
JudgeSpec == Init /\ [][JudgeNext]_vars

\* the prompt extraction alone
ExtractSpec == Init /\ [][ExtractNext]_vars

\* the optimize calls of adapters on one event loop
LoopSpec == Init /\ [][LoopNext]_vars

\* single calls of the factories and helper functions
CallSpec == Init /\ [][CallNext]_vars

\* generate_test_cases alone
GenSpec == Init /\ [][GenNext]_vars

\* requests to the run endpoint
RunSpec == Init /\ [][RunNext]_vars

\* pairs of optimize calls that differ in results only
PairSpec == Init /\ [][PairNext]_vars

(***************************************************************************)
(* Properties                                                              *)
(***************************************************************************)
\* the (framework, optimizer_type) of the call is a registered combination
ValidCombo ==
    /\ framework \in DOMAIN Factories
    /\ optimizer_type \in Range(Factories[framework])

\* optimize has gone past its split step
SplitDone == op = "optimize" /\ pc \in {"check", "create", "invoke", "done"}

\* a call (of either entry point) has returned its partitions
Returned == pc = "done" /\ (op = "split" \/ response.kind = "response")

Ids(h, addrs) == {h[addrs[i]].id : i \in 1..Len(addrs)}

C2_EmptyTrainShortCircuit ==
    (op = "optimize" /\ pc \in {"create", "invoke", "done"}
        /\ train_cases = <<>>) =>
        /\ pc = "done"
        /\ response.kind = "response"
        /\ response.optimized_prompt = current_prompt
        /\ response.modification_notes =
              <<"No training cases available for optimization">>
        /\ response.train_cases = <<>>
        /\ response.test_cases = test_split
        /\ \A i \in 1..Len(test_split) : heap[test_split[i]].split = "test"
        /\ config = NoConfig
        /\ adapter = NoAdapter
        /\ engineCalls = 0
        /\ outcome = "none"

C2_Witness ==
    /\ pc = "done"
    /\ op = "optimize"
    /\ framework = "opik"
    /\ response.kind = "response"
    /\ response.train_cases = <<>>
    /\ Len(response.test_cases) = 2
    /\ shuffleCalls = 0

\* C3: for an invalid (framework, optimizer_type) optimize raises from its
\* validation step: no case was shuffled or split, no config built, no
\* adapter created, no engine invoked and no response produced.
C3_ValidateBeforeSplit ==
    (op = "optimize" /\ ~ValidCombo) =>
        /\ pc \in {"validate", "raised"}
        /\ shuffleCalls = 0
        /\ heap = snapHeap
        /\ train_cases = <<>>
        /\ test_split = <<>>
        /\ config = NoConfig
        /\ adapter = NoAdapter
        /\ engineCalls = 0
        /\ response = NoResponse

C3_Witness ==
    /\ pc = "raised"
    /\ op = "optimize"
    /\ framework = "langchain"
    /\ Len(test_cases) = MaxCases
    /\ ~HasSplit(heap, test_cases)

\* C4: validate_optimizer passes exactly the types in the framework's own
\* list and raises for every other type and for every unregistered
\* framework, the latter with the unknown-framework error.
C4_ValidateExact ==
    (op = "optimize" /\ pc # "validate") =>
        /\ (pc # "raised") <=> ValidCombo
        /\ (raised = NoError) <=> ValidCombo
        /\ (framework \notin DOMAIN Factories
              => raised = <<"Unknown framework: ", framework>>)
        /\ (framework \in DOMAIN Factories /\ ~ValidCombo
              => raised[1] = "Optimizer '")

C4_Witness ==
    /\ pc = "raised"
    /\ framework = "dspy"
    /\ optimizer_type = "gepa"

\* the error names the offending value
NamesOffender ==
    IF framework \notin DOMAIN Factories
    THEN framework \in Range(raised)
    ELSE optimizer_type \in Range(raised)

\* the error lists the valid alternatives to the offending value
ListsAlternatives ==
    IF framework \notin DOMAIN Factories
    THEN \A f \in DOMAIN Factories : f \in Range(raised)
    ELSE \A t \in Range(Factories[framework]) : t \in Range(raised)

\* C5 as stated: every validation failure names the offending value and
\* lists the valid alternatives.
C5_Original ==
    (op = "optimize" /\ pc = "raised") => NamesOffender /\ ListsAlternatives

\* C5 amended: every validation failure names the offending value; the
\* optimizer-not-available failure also lists the framework's valid types,
\* the unknown-framework failure consists of the framework name only.
C5_Amended ==
    (op = "optimize" /\ pc = "raised") =>
        /\ NamesOffender
        /\ (framework \in DOMAIN Factories => ListsAlternatives)
        /\ (framework \notin DOMAIN Factories =>
               Range(raised) = {"Unknown framework: ", framework})

C5_Witness ==
    /\ pc = "raised"
    /\ framework = "opik"
    /\ optimizer_type = "copro"
    /\ Len(raised) = 5 + Len(OpikTypes)

\* C6: split_test_cases returns len(train) = floor(len(cases) * train_ratio)
\* and len(train) + len(test) = len(cases), train_ratio being the decimal
\* fraction the caller wrote (0.5, 0.7, 0.8).
C6_FloorOfRatio ==
    (op = "split" /\ pc = "done") =>
        /\ Len(train_cases) =
              (Len(test_cases) * train_ratio.num) \div train_ratio.den
        /\ Len(train_cases) + Len(test_split) = Len(test_cases)

\* C7: after the shuffling splitter ran, the ids of train and test together
\* are exactly the input ids and every id occurs once, in one partition.
C7_NoDropNoDuplicate ==
    (shuffleCalls = 1) =>
        LET trainIds == Ids(heap, train_cases)
            testIds  == Ids(heap, test_split)
        IN  /\ trainIds \cup testIds = Ids(snapHeap, snapCases)
            /\ trainIds \cap testIds = {}
            /\ Cardinality(trainIds) = Len(train_cases)
            /\ Cardinality(testIds) = Len(test_split)
            /\ Len(train_cases) + Len(test_split) = Len(snapCases)

C7_Witness ==
    /\ op = "split"
    /\ pc = "done"
    /\ Len(train_cases) = 2
    /\ Len(test_split) = 1
    /\ heap[train_cases[1]].id = 3
    /\ heap[train_cases[2]].id = 1

\* the caller's list and every object that existed at the call are as before
InputUntouched ==
    /\ test_cases = snapCases
    /\ Len(heap) >= Len(snapHeap)
    /\ \A a \in 1..Len(snapHeap) : heap[a] = snapHeap[a]

\* every returned train case is tagged train, every returned test case test
ReturnedTagged ==
    /\ \A i \in 1..Len(train_cases) : heap[train_cases[i]].split = "train"
    /\ \A i \in 1..Len(test_split) : heap[test_split[i]].split = "test"

\* the returned cases are objects of their own, none is an input object
ReturnedAreCopies ==
    (Range(train_cases) \cup Range(test_split)) \cap Range(snapCases) = {}

\* the returned cases are the caller's own objects
ReturnedAreInputs ==
    (Range(train_cases) \cup Range(test_split)) \subseteq Range(snapCases)

\* C8 as stated: both entry points leave the caller's input untouched and
\* return tagged copies.
C8_Original ==
    /\ InputUntouched
    /\ Returned => ReturnedTagged /\ ReturnedAreCopies

\* C8 amended: both entry points leave the caller's input untouched and
\* return cases tagged train/test; the returned cases are copies whenever
\* the shuffling splitter ran, and are the caller's own objects when
\* optimize partitioned by existing tags.
C8_Amended ==
    /\ InputUntouched
    /\ Returned =>
          /\ ReturnedTagged
          /\ (shuffleCalls = 1 => ReturnedAreCopies)
          /\ (shuffleCalls = 0 => ReturnedAreInputs)

C8_Witness ==
    /\ pc = "done"
    /\ op = "optimize"
    /\ shuffleCalls = 1
    /\ response.kind = "response"
    /\ Len(response.train_cases) = 2
    /\ Len(response.test_cases) = 1
    /\ heap[response.train_cases[1]].id = 2

\* every input case carries a split tag
AllTagged == \A i \in 1..Len(snapCases) : snapHeap[snapCases[i]].split # None

\* optimize partitioned by the existing tags, in input order, no shuffle
PartitionedByTag ==
    /\ shuffleCalls = 0
    /\ heap = snapHeap
    /\ train_cases =
          SelectSeq(snapCases, LAMBDA a : snapHeap[a].split = "train")
    /\ test_split =
          SelectSeq(snapCases, LAMBDA a : snapHeap[a].split = "test")
    /\ (pc = "done" => /\ response.train_cases = train_cases
                       /\ response.test_cases = test_split)

\* C9 as stated: if every input case carries a split tag, optimize never
\* calls the shuffling splitter and returns the train-tagged and test-tagged
\* input cases in input order.
C9_Original == (SplitDone /\ AllTagged) => PartitionedByTag

\* C9 amended: the same, for a non-empty input (for an empty list no case
\* carries a tag and the splitter is called, on nothing).
C9_Amended == (SplitDone /\ AllTagged /\ snapCases # <<>>) => PartitionedByTag

C9_Witness ==
    /\ pc = "done"
    /\ op = "optimize"
    /\ prev = NoPrev
    /\ Len(snapCases) = 3
    /\ AllTagged
    /\ Len(response.train_cases) = 2
    /\ heap[response.train_cases[1]].id = 1
    /\ heap[response.train_cases[2]].id = 3

\* C10: a call fed the train_cases and test_cases of an earlier response
\* returns the same train and test partitions, members and order, whatever
\* the adapter does in it.
C10_RefeedSameSplit ==
    (pc = "done" /\ prev.kind = "prev") =>
        /\ response.kind = "response"
        /\ Deref(heap, response.train_cases) = prev.train
        /\ Deref(heap, response.test_cases) = prev.test

C10_Witness ==
    /\ pc = "done"
    /\ prev.kind = "prev"
    /\ Len(prev.train) = 2
    /\ Len(prev.test) = 1
    /\ outcome \in EngineErrors
    /\ test_cases[1] = response.test_cases[1]

(***************************************************************************)
(* Properties of LLMJudge                                                  *)
(***************************************************************************)
BatchReturned == jpc = "done"

\* C11: evaluate_batch returns exactly one EvaluationResult per input case,
\* and the i-th result carries the id of the i-th input case, in whatever
\* order the requests of the cases completed.
C11_ResultsInInputOrder ==
    BatchReturned =>
        /\ Len(joutput) = Len(jcases)
        /\ \A i \in 1..Len(jcases) : joutput[i].test_case_id = jcases[i].id

\* a batch came back whose requests completed out of input order
C11_Witness ==
    /\ BatchReturned
    /\ Len(jcases) >= 2
    /\ jinverted

\* the replies that make the evaluation of a case fail
IsFailure(reply) ==
    \/ reply.kind \in {"request_failed", "bad_json", "missing_field"}
    \/ reply.kind = "object" /\ reply.verdict \notin ResultVerdicts

\* C12: an error while evaluating one case (request failure, unparsable
\* response, missing field, invalid verdict value) yields one result at that
\* case's position with actual_verdict ERROR, correct false and a reasoning
\* that contains the failure description; the batch is never aborted and
\* the result of every other case is what its own reply gives.
C12_ErrorPerCase ==
    /\ jpc # "raised"
    /\ jraised = NoError
    /\ \A i \in Done(jtask) :
          IF IsFailure(jreply[i])
          THEN /\ jresults[i].test_case_id = jcases[i].id
               /\ jresults[i].actual_verdict = "ERROR"
               /\ jresults[i].correct = FALSE
               /\ jreply[i].error \in Range(jresults[i].reasoning)
          ELSE /\ jresults[i].test_case_id = jcases[i].id
               /\ jresults[i].actual_verdict = jreply[i].verdict
               /\ jresults[i].reasoning = <<jreply[i].reasoning>>
    /\ BatchReturned => Len(joutput) = Len(jcases) /\ joutput = jresults

\* a batch came back in which the request of one case failed, another case
\* got an invalid verdict, and a third was judged
C12_Witness ==
    /\ BatchReturned
    /\ \E i, j, k \in 1..Len(jcases) :
          /\ jreply[i].kind = "request_failed"
          /\ jreply[j].kind = "object" /\ jreply[j].verdict = "MAYBE"
          /\ ~IsFailure(jreply[k])
          /\ joutput[k].actual_verdict = "PASS"

\* C13: the number of per-case requests in flight at the same time never
\* exceeds the fixed ceiling, however many cases the batch has.
C13_BoundedInFlight == Cardinality(InFlight(jtask)) <= JudgeCeiling

\* C14: in every EvaluationResult the judge produces, correct is true
\* exactly when actual_verdict equals the case's expected_verdict, and
\* correct is false whenever actual_verdict is ERROR.
C14_CorrectIffMatch ==
    \A i \in Done(jtask) :
        /\ jresults[i].correct
             <=> (jresults[i].actual_verdict = jcases[i].expected_verdict)
        /\ jresults[i].actual_verdict = "ERROR" => ~jresults[i].correct

\* a batch came back with a matching verdict, a mismatching FAIL verdict and
\* a verdict of ERROR given by the LLM itself
C14_Witness ==
    /\ BatchReturned
    /\ \E i, j, k \in 1..Len(jcases) :
          /\ joutput[i].correct
          /\ joutput[j].actual_verdict = "FAIL" /\ ~joutput[j].correct
          /\ jreply[k].kind = "object" /\ jreply[k].verdict = "ERROR"
             /\ ~joutput[k].correct

(***************************************************************************)
(* Properties of the prompt extraction                                     *)
(***************************************************************************)
Extracted == xpc = "done"

\* the module exposes non-empty instructions
ExposesInstructions ==
    /\ xmodule.signature = "present"
    /\ xmodule.instructions.kind = "value"
    /\ xmodule.instructions.val # ""

\* the module exposes a non-empty list of demos
ExposesDemos == xmodule.demos.kind = "value" /\ Len(xmodule.demos.val) >= 1

\* the places of a piece in a text
Places(text, piece) == {p \in 1..Len(text) : text[p] = piece}

\* C15: for a result that exposes both non-empty instructions and a
\* non-empty list of demos, the extracted prompt is the instructions text
\* only: no Examples section and no demo block is appended.
C15_InstructionsOnly ==
    (Extracted /\ ExposesInstructions /\ ExposesDemos) =>
        /\ xresult.optimized_prompt = <<xmodule.instructions.val>>
        /\ Places(xresult.optimized_prompt, "\n\n## Examples:") = {}
        /\ Places(xresult.optimized_prompt, "\n### Example ") = {}

\* what a block shows for an attribute of a demo
Shown(a) == IF a.kind = "absent" THEN "N/A" ELSE a.val

\* C16: with demos only (no instructions, n >= 1 demos) the extracted prompt
\* starts with the original prompt, holds exactly one numbered block per
\* demo, Example 1..n in demo order, each with the demo's input, verdict
\* and reasoning, and the note reports exactly n added examples.
C16_DemosOnly ==
    (Extracted /\ ~ExposesInstructions /\ ExposesDemos) =>
        LET prompt == xresult.optimized_prompt
            demos  == xmodule.demos.val
            n      == Len(demos)
            heads  == Places(prompt, "\n### Example ")
        IN  /\ prompt[1] = xoriginal
            /\ Cardinality(Places(prompt, "\n\n## Examples:")) = 1
            /\ Cardinality(heads) = n
            /\ \A i \in 1..n :
                  \E p \in heads :
                     /\ Cardinality({q \in heads : q < p}) = i - 1
                     /\ prompt[p + 1] = ToString(i)
                     /\ prompt[p + 3] = "Input: "
                     /\ prompt[p + 4] = Shown(demos[i].input_text)
                     /\ prompt[p + 6] = "Verdict: "
                     /\ prompt[p + 7] = Shown(demos[i].verdict)
                     /\ prompt[p + 9] = "Reasoning: "
                     /\ prompt[p + 10] = Shown(demos[i].reasoning)
            /\ xresult.modification_notes
                 = <<"Added ", ToString(n), " fewshot examples">>

\* two different demos were extracted from a module without instructions
C16_Witness ==
    /\ Extracted
    /\ ~ExposesInstructions
    /\ ExposesDemos
    /\ Len(xmodule.demos.val) = 2
    /\ xmodule.demos.val[1] # xmodule.demos.val[2]
    /\ xoriginal = "Original prompt"
    /\ Len(xresult.optimized_prompt) > 2

\* C17: with neither instructions nor demos present and non-empty (null or
\* empty instructions, null or empty demos, in any combination) the
\* extraction returns, and returns the original prompt unchanged with a note
\* that the optimizer ran but made no changes.
C17_NoChanges ==
    (Extracted /\ ~ExposesInstructions /\ ~ExposesDemos) =>
        /\ xresult.optimized_prompt = <<xoriginal>>
        /\ xresult.modification_notes
             = <<"Optimizer (", xname, ") ran but made no changes">>

\* a module with empty instructions and an empty list of demos was extracted
C17_Witness ==
    /\ Extracted
    /\ xmodule.signature = "present"
    /\ xmodule.instructions = Str("")
    /\ xmodule.demos = List(<<>>)
    /\ xoriginal = "Original prompt"
    /\ xresult # NoExtraction

(***************************************************************************)
(* Properties of the adapters' optimize calls on the event loop            *)
(***************************************************************************)
\* C18: a DSPy adapter configures the engine's model only through a scoped
\* context, entered exactly once before the engine call and left when the
\* call ends, also when the engine raises; dspy.configure is never used, so
\* whenever no optimize call is running on the loop's thread the
\* configuration seen there is the one from before the calls.
C18_ScopedContextOnly ==
    /\ globalLM = NoLM
    /\ \A t \in Tasks :
          cfw[t] = "dspy" =>
             /\ cpc[t] = "engine" =>
                   /\ centered[t] = 1 /\ cexited[t] = 0
                   /\ ctxStack = <<LM(GetDspyModelName(cmodel[t]))>>
             /\ cpc[t] = "done" => centered[t] = 1 /\ cexited[t] = 1
    /\ loop = 0 => EffectiveLM(ctxStack, globalLM) = NoLM /\ ctxStack = <<>>

\* two DSPy calls have ended, one whose engine raised and one whose engine
\* returned
C18_Witness ==
    /\ \A t \in Tasks : cfw[t] = "dspy" /\ cpc[t] = "done"
    /\ \E t, u \in Tasks : cout[t] = "raised" /\ cout[u] = "ok"
    /\ loop = 0

\* C19: of two optimize calls in flight at the same time with different
\* models, under every interleaving, the engine of each runs with the
\* model of its own call and never with the other's.
C19_OwnModel ==
    \A t \in Tasks :
        cout[t] # "none" =>
           /\ cran[t] # NoName
           /\ ModelOf(cran[t]) = ModelOf(cmodel[t])
           /\ \A u \in Tasks \ {t} :
                 (cpc[u] # "idle" /\ cmodel[u] # cmodel[t])
                    => ModelOf(cran[t]) # ModelOf(cmodel[u])

\* a DSPy engine and an Opik engine have run at the same time for calls
\* with different models
C19_Witness ==
    /\ coverlap
    /\ cfw[1] # cfw[2]
    /\ cmodel[1] # cmodel[2]
    /\ \A t \in Tasks : cran[t] # NoName

\* C20: in every adapter of both families the blocking engine call runs
\* away from the event loop's thread and is awaited: while the engine of a
\* call is running, that call does not hold the loop, so other tasks can
\* take steps.
C20_EngineOffloaded ==
    \A t \in Tasks : cpc[t] = "engine" => loop # t

(***************************************************************************)
(* Properties of the factories and helper functions                        *)
(***************************************************************************)
Called(f) == kpc = "done" /\ kop = f

\* C21: create_adapter(t, config) of a factory succeeds exactly when t is
\* in the factory's get_optimizer_types(): it then returns an adapter named
\* t with the factory's framework tag; for every other t it raises an error
\* that names t and lists the valid type names, and creates no adapter.
C21_CreateAdapterExact ==
    Called("create_adapter") =>
        LET types == Factories[karg.framework]
        IN  IF karg.optimizer_type \in Range(types)
            THEN /\ kres.kind = "adapter"
                 /\ kres.name = karg.optimizer_type
                 /\ kres.framework = karg.framework
            ELSE /\ kres.kind = "error"
                 /\ karg.optimizer_type \in Range(kres.message)
                 /\ \A i \in 1..Len(types) : types[i] \in Range(kres.message)

\* the Opik factory was asked for a type that only the DSPy factory has
C21_Witness ==
    /\ Called("create_adapter")
    /\ karg.framework = "opik"
    /\ karg.optimizer_type = "miprov2"
    /\ kres.kind = "error"

\* C23: get_dspy_model_name returns a name that holds the separator "/"
\* unchanged; an unprefixed name the lookup table has as provider/model; any
\* other unprefixed name as openai/model; normalizing a normalized name
\* changes nothing.
C23_ModelNameNormalized ==
    Called("get_dspy_model_name") =>
        LET m == karg.model
            r == kres.value
        IN  /\ (\E i \in 1..Len(m) : m[i] = "/") => r = m
            /\ (m \in {<<"gpt-4o">>, <<"gpt-4o-mini">>})
                  => r = <<"openai", "/", m[1]>>
            /\ (m \in {<<"claude-3-5-sonnet-20241022">>,
                       <<"claude-3-5-haiku-20241022">>})
                  => r = <<"anthropic", "/", m[1]>>
            /\ (m \in {<<"mistral-large">>, <<"llama3">>})
                  => r = <<"openai", "/", m[1]>>
            /\ kres.again = r

\* a model of the anthropic family was normalized
C23_Witness ==
    /\ Called("get_dspy_model_name")
    /\ karg.model = <<"claude-3-5-haiku-20241022">>
    /\ kres.value = <<"anthropic", "/", "claude-3-5-haiku-20241022">>
    /\ kres.again = kres.value

\* C24: for every (expected, predicted) pair the scalar metric returns 1.0
\* if the two are equal and 0.0 otherwise; the feedback metric returns the
\* same score, with a positive note on a match and a note that embeds the
\* expected and the actual verdict on a mismatch; neither changes its
\* arguments.
C24_MetricScores ==
    Called("metric") =>
        LET expected == karg.example.expected_verdict
            actual   == karg.pred.verdict
        IN  /\ kres.score = IF expected = actual THEN 1 ELSE 0
            /\ ~karg.with_feedback =>
                  kres.kind = "float" /\ kres.feedback = <<>>
            /\ karg.with_feedback =>
                  /\ kres.kind = "prediction"
                  /\ expected = actual => kres.feedback = <<"Correct verdict">>
                  /\ expected # actual =>
                        \E i, j \in 1..Len(kres.feedback) :
                           /\ i < j
                           /\ kres.feedback[i] = expected
                           /\ kres.feedback[j] = actual
            /\ kres.example = karg.example
            /\ kres.pred = karg.pred

\* the feedback metric scored a prediction that differs from the expected
\* verdict only in case
C24_Witness ==
    /\ Called("metric")
    /\ karg.with_feedback
    /\ karg.example.expected_verdict = "PASS"
    /\ karg.pred.verdict = "pass"
    /\ kres.score = 0

\* C26: the Opik result extraction never raises; if the result exposes a
\* prompt whose first message carries content, the returned prompt is that
\* content; in every other case (no prompt, no messages, first message
\* without content) it returns the original prompt unchanged with a note
\* that the optimizer ran but made no changes.
C26_ExtractResultTable ==
    Called("extract_result") =>
        LET result == karg.result
            first  == result.messages.val[1]
        IN  IF /\ result.prompt = "present"
               /\ result.messages.kind = "value"
               /\ Len(result.messages.val) >= 1
               /\ first.content.kind # "absent"
            THEN kres.optimized_prompt = first.content
            ELSE /\ kres.optimized_prompt = Str(karg.original_prompt)
                 /\ kres.modification_notes
                      = <<"Optimizer (", karg.name,
                          ") ran but made no changes">>

\* C28: each adapter gives its engine the metric variant its algorithm
\* needs: the adapters of engines that rewrite the prompt reflectively or
\* iteratively (COPRO, MIPROv2, meta-prompting, hierarchical reflection) the
\* metric that returns feedback with the score, the adapter of the
\* demo-selection engine (bootstrap few-shot) the metric that returns the
\* score alone.
C28_MetricVariantPerEngine ==
    Called("adapter_metric") =>
        /\ karg.optimizer_type \in {"copro", "miprov2", "metaprompt",
                                    "hierarchical_reflective"}
              => kres.kind = "prediction" /\ kres.feedback # <<>>
        /\ karg.optimizer_type = "bootstrap_fewshot"
              => kres.kind = "float" /\ kres.feedback = <<>>

(***************************************************************************)
(* Properties of generate_test_cases                                       *)
(***************************************************************************)
\* C25: generate_test_cases is all-or-nothing: if either of its two LLM
\* calls fails, the failure reaches the caller and neither test cases nor a
\* prompt are returned; on success it returns one TestCase per generated
\* case, in generation order, each unverified and without split tag.
C25_AllOrNothing ==
    /\ (\E i \in 1..Len(greplies) : greplies[i].kind = "error") =>
          /\ gpc = "raised"
          /\ graised = <<greplies[Len(greplies)].error>>
          /\ gresult = NoGenerated
    /\ gpc = "raised" => gresult = NoGenerated /\ graised # <<>>
    /\ gpc = "done" =>
          LET generated == greplies[1].test_cases
              cases     == gresult.test_cases
          IN  /\ graised = <<>>
              /\ gresult.kind = "tuple"
              /\ gresult.system_prompt = greplies[2].system_prompt
              /\ Len(cases) = Len(generated)
              /\ \A i \in 1..Len(cases) :
                    /\ cases[i].input_text = generated[i].input_text
                    /\ cases[i].expected_verdict = generated[i].expected_verdict
                    /\ cases[i].reasoning = generated[i].reasoning
                    /\ cases[i].verified = FALSE
                    /\ cases[i].split = "None"

\* the call that generates the system prompt failed after two different
\* cases had been generated
C25_Witness ==
    /\ gpc = "raised"
    /\ Len(greplies) = 2
    /\ Len(greplies[1].test_cases) = 2
    /\ greplies[1].test_cases[1] # greplies[1].test_cases[2]
    /\ greplies[2].kind = "error"

\* C27: generate_test_cases passes the model its caller asked for to the
\* LLM call that generates the test cases.
C27_RequestedModelUsed ==
    Len(gcalls) >= 1 =>
        /\ gcalls[1].response_model = "GeneratedTestCaseList"
        /\ gcalls[1].model = gmodel

(***************************************************************************)
(* Properties of optimize on partially tagged input                        *)
(***************************************************************************)
\* the input cases that carry a split tag, and those that carry none
TaggedInputs == {a \in Range(snapCases) : snapHeap[a].split # None}
UntaggedInputs == {a \in Range(snapCases) : snapHeap[a].split = None}

PartiallyTagged == TaggedInputs # {} /\ UntaggedInputs # {}

\* C29: when at least one but not every input case carries a split tag,
\* optimize partitions exactly the tagged cases: an untagged case is in
\* neither partition, is not among the train cases the adapter is given,
\* and the two returned lists together are shorter than the input.
C29_UntaggedDropped ==
    (SplitDone /\ PartiallyTagged) =>
        /\ Range(train_cases) \cup Range(test_split) = TaggedInputs
        /\ Range(train_cases) \cap UntaggedInputs = {}
        /\ Range(test_split) \cap UntaggedInputs = {}
        /\ Len(train_cases) + Len(test_split) = Cardinality(TaggedInputs)
        /\ Len(train_cases) + Len(test_split) < Len(snapCases)
        /\ heap = snapHeap
        /\ (pc = "done" => /\ response.train_cases = train_cases
                           /\ response.test_cases = test_split)

\* the adapter ran on the one train case of an input of three of which one
\* carries no tag
C29_Witness ==
    /\ pc = "done"
    /\ op = "optimize"
    /\ engineCalls = 1
    /\ Len(snapCases) = 3
    /\ Cardinality(UntaggedInputs) = 1
    /\ Len(response.train_cases) = 1
    /\ Len(response.test_cases) = 1

(***************************************************************************)
(* Properties of run_endpoint                                              *)
(***************************************************************************)
\* C30: the statistics the run endpoint returns satisfy total = passed +
\* failed + errors with none of the three negative; total is the number of
\* input cases, passed the number of results with correct true, errors the
\* number of results with verdict ERROR; with no cases all counts and the
\* accuracy are 0.
C30_StatsAddUp ==
    rstats # NoStats =>
        /\ rstats.total = rstats.passed + rstats.failed + rstats.errors
        /\ rstats.passed >= 0
        /\ rstats.failed >= 0
        /\ rstats.errors >= 0
        /\ rstats.total = Len(jcases)
        /\ rstats.passed =
              Cardinality({i \in 1..Len(joutput) : joutput[i].correct})
        /\ rstats.errors =
              Cardinality({i \in 1..Len(joutput) :
                              joutput[i].actual_verdict = "ERROR"})
        /\ (jcases = <<>> =>
              /\ rstats.total = 0
              /\ rstats.passed = 0
              /\ rstats.failed = 0
              /\ rstats.errors = 0
              /\ rstats.accuracy = 0)

\* a batch of three with one result of each kind: correct, wrong, ERROR
C30_Witness ==
    /\ rstats # NoStats
    /\ rstats.total = 3
    /\ rstats.passed = 1
    /\ rstats.failed = 1
    /\ rstats.errors = 1
    /\ rstats.accuracy = 3333

====
